---- MODULE Spec2Model ----
(***************************************************************************)
(* Model of the gofsen HTTP router.  Two programs live in the repository:  *)
(*   - package gofsen (the published library): a route list scanned in     *)
(*     registration order, regex patterns for ":param" templates, and a    *)
(*     middleware chain driven by a cursor (Context.Next);                  *)
(*   - package internal/router: a method -> path -> handler map with       *)
(*     middleware composed as closures, and 404 / 405 diagnostics.         *)
(* Paths of package gofsen are sequences of one-character strings, so that *)
(* pattern compilation and matching are computed character by character.   *)
(***************************************************************************)
EXTENDS Integers, Sequences, FiniteSets, TLC

VARIABLES routes, mwArr, mwLen, groups, reqs, reg,
          tmpl, mpath, mres, farg, fres,
          iroutes, imws, igroups, ires, ireg

gvars == <<routes, mwArr, mwLen, groups, reqs, reg>>
mvars == <<tmpl, mpath, mres, farg, fres>>
ivars == <<iroutes, imws, igroups, ires, ireg>>
vars == <<routes, mwArr, mwLen, groups, reqs, reg, tmpl, mpath, mres, farg, fres, iroutes, imws, igroups, ires, ireg>>

(***************************************************************************)
(* Bounds of the model.                                                    *)
(***************************************************************************)
MaxRoutes == 3
MaxChainRoutes == 2
MaxMws == 2
MaxConcMws == 3
MaxGroups == 1
MaxGroupMws == 1
MaxMwsG == 1
MaxTmplLen == 5
MaxPathLen == 4
MaxIRoutes == 1
MaxPanicRoutes == 1
MaxOrigins == 2
MaxRecMws == 3

(***************************************************************************)
(* Strings.                                                                *)
(***************************************************************************)
Chars == {"/", ":", "a", "."}

Strs(n) == UNION {[1..k -> Chars] : k \in 0..n}

\* strings.Contains(s, c) for a one-character c
Contains(s, c) == \E i \in 1..Len(s) : s[i] = c

\* the capture group "([^/]+)" that replaces a marker, kept as one token
GroupTok == "([^/]+)"

\* index of the first occurrence of old in s, 0 when there is none
IndexOf(s, old) ==
    LET hits == {i \in 1..(Len(s) - Len(old) + 1) : SubSeq(s, i, i + Len(old) - 1) = old}
    IN IF hits = {} THEN 0 ELSE CHOOSE i \in hits : \A j \in hits : i <= j

\* strings.Replace(s, old, new, 1)
ReplaceFirst(s, old, new) ==
    LET i == IndexOf(s, old)
    IN IF i = 0 THEN s
       ELSE SubSeq(s, 1, i - 1) \o new \o SubSeq(s, i + Len(old), Len(s))

\* end of the maximal run of non-'/' characters that starts at i (i - 1 when empty)
RECURSIVE RunEnd(_, _)
RunEnd(s, i) == IF i > Len(s) \/ s[i] = "/" THEN i - 1 ELSE RunEnd(s, i + 1)

\* paramRegex.FindAllStringSubmatch(path, -1) for paramRegex = `:([^/]+)`:
\* the leftmost, non-overlapping, greedy matches; each as [whole, name]
RECURSIVE FindAllMarkers(_, _)
FindAllMarkers(s, i) ==
    IF i > Len(s) THEN <<>>
    ELSE IF s[i] = ":" /\ RunEnd(s, i + 1) >= i + 1
         THEN LET e == RunEnd(s, i + 1)
              IN <<[whole |-> SubSeq(s, i, e), name |-> SubSeq(s, i + 1, e)]>>
                 \o FindAllMarkers(s, e + 1)
         ELSE FindAllMarkers(s, i + 1)

RECURSIVE ReplaceMarkers(_, _)
ReplaceMarkers(regexPath, ms) ==
    IF ms = <<>> THEN regexPath
    ELSE ReplaceMarkers(ReplaceFirst(regexPath, Head(ms).whole, <<GroupTok>>), Tail(ms))

NoPattern == <<"nil">>

\* convertPathToRegex: [Pattern, Params]; Pattern is NoPattern for a nil *regexp.Regexp.
\* The anchors ^ and $ are implicit in Matches, which matches the whole path.
convertPathToRegex(path) ==
    IF ~Contains(path, ":") THEN [Pattern |-> NoPattern, Params |-> <<>>]
    ELSE LET ms == FindAllMarkers(path, 1)
         IN [Pattern |-> ReplaceMarkers(path, ms),
             Params |-> [i \in 1..Len(ms) |-> ms[i].name]]

NoMatch == [ok |-> FALSE, caps |-> <<>>]

\* Pattern.FindStringSubmatch(path) for the anchored pattern: a literal character
\* matches itself, '.' matches any character, the group matches one or more
\* non-'/' characters, longest first.  caps are the submatches 1..n.
RECURSIVE MatchAt(_, _, _, _)
RECURSIVE MatchGroup(_, _, _, _, _)
MatchAt(pat, s, i, j) ==
    IF i > Len(pat) THEN (IF j > Len(s) THEN [ok |-> TRUE, caps |-> <<>>] ELSE NoMatch)
    ELSE IF pat[i] = GroupTok THEN MatchGroup(pat, s, i, j, RunEnd(s, j))
    ELSE IF j > Len(s) THEN NoMatch
    ELSE IF pat[i] = "." \/ pat[i] = s[j] THEN MatchAt(pat, s, i + 1, j + 1)
    ELSE NoMatch

MatchGroup(pat, s, i, j, e) ==
    IF e < j THEN NoMatch
    ELSE LET rest == MatchAt(pat, s, i + 1, e + 1)
         IN IF rest.ok THEN [ok |-> TRUE, caps |-> <<SubSeq(s, j, e)>> \o rest.caps]
            ELSE MatchGroup(pat, s, i, j, e - 1)

FindStringSubmatch(pat, s) == MatchAt(pat, s, 1, 1)

\* the params map built by findRoute (i + 1 < len(matches) guards each capture):
\* a later marker of the same name overwrites an earlier one
ParamsOf(names, caps) ==
    [n \in {names[i] : i \in {k \in 1..Len(names) : k <= Len(caps)}} |->
        LET is == {i \in 1..Len(names) : names[i] = n /\ i <= Len(caps)}
            last == CHOOSE i \in is : \A k \in is : k <= i
        IN caps[last]]

EmptyParams == [n \in {} |-> <<>>]

NilRoute == [idx |-> 0, params |-> EmptyParams]

\* findRouteFrom that keeps scanning after a hit, so that the last matching route wins
RECURSIVE findRouteFromLast(_, _, _, _)
findRouteFromLast(rs, i, method, path) ==
    IF i > Len(rs) THEN NilRoute
    ELSE LET later == findRouteFromLast(rs, i + 1, method, path)
         IN IF later.idx # 0 THEN later
            ELSE IF rs[i].Method = method
                 THEN IF rs[i].Pattern # NoPattern
                      THEN LET m == FindStringSubmatch(rs[i].Pattern, path)
                           IN IF m.ok THEN [idx |-> i, params |-> ParamsOf(rs[i].Params, m.caps)]
                              ELSE NilRoute
                      ELSE IF rs[i].Path = path THEN [idx |-> i, params |-> EmptyParams]
                           ELSE NilRoute
                 ELSE NilRoute

\* Router.findRoute: scan r.routes in registration order from index i; idx 0 is nil
RECURSIVE findRouteFrom(_, _, _, _)
findRouteFrom(rs, i, method, path) ==
    IF i > Len(rs) THEN NilRoute
    ELSE IF rs[i].Method = method
         THEN IF rs[i].Pattern # NoPattern
              THEN LET m == FindStringSubmatch(rs[i].Pattern, path)
                   IN IF m.ok THEN [idx |-> i, params |-> ParamsOf(rs[i].Params, m.caps)]
                      ELSE findRouteFrom(rs, i + 1, method, path)
              ELSE IF rs[i].Path = path THEN [idx |-> i, params |-> EmptyParams]
                   ELSE findRouteFrom(rs, i + 1, method, path)
         ELSE findRouteFrom(rs, i + 1, method, path)

findRoute(rs, method, path) == findRouteFrom(rs, 1, method, path)

\* Router.addRoute: compile the template and append the route.  Handler is the
\* closure passed in, named by a label.
addRoute(rs, method, path, handler) ==
    LET c == convertPathToRegex(path)
    IN Append(rs, [Method |-> method, Path |-> path, Handler |-> handler,
                   Pattern |-> c.Pattern, Params |-> c.Params])

(***************************************************************************)
(* Slices.  r.middlewares is a Go slice: a backing array (mwArr, whose     *)
(* length is the capacity) and a length (mwLen).  append writes in place   *)
(* while len < cap and otherwise copies into a new array of doubled        *)
(* capacity.                                                               *)
(***************************************************************************)
NilFn == [k |-> "nil", kind |-> "", id |-> 0]

MwFn(kind, id) == [k |-> "mw", kind |-> kind, id |-> id]

\* finalHandler of ServeHTTP: the closure that calls route.Handler
FinalFn(handler) == [k |-> "final", kind |-> "handler", id |-> handler]

GrowCap(oldCap, needed) ==
    IF oldCap = 0 THEN needed
    ELSE IF needed > oldCap + oldCap THEN needed ELSE oldCap + oldCap

\* append(s, x) for the slice (arr, len): the array and length of the result
SliceAppend(arr, len, x) ==
    IF len < Len(arr)
    THEN [arr |-> [arr EXCEPT ![len + 1] = x], len |-> len + 1]
    ELSE LET newCap == GrowCap(Len(arr), len + 1)
         IN [arr |-> [i \in 1..newCap |-> IF i <= len THEN arr[i]
                                          ELSE IF i = len + 1 THEN x ELSE NilFn],
             len |-> len + 1]

(***************************************************************************)
(* The CORS middleware of package gofsen.                                  *)
(***************************************************************************)
\* sequences over S of length at most n
SeqsUpTo(S, n) == UNION {[1..k -> S] : k \in 0..n}

\* a response header: whether it was set, and its value
Unset == [set |-> FALSE, value |-> ""]

HeaderSet(value) == [set |-> TRUE, value |-> value]

\* CORSWithConfig setting Access-Control-Allow-Origin without the allow-list
CORSEchoAll(config, origin, method) ==
    [acao |-> HeaderSet(IF origin # "" THEN origin ELSE "*"),
     others |-> TRUE,
     status |-> IF method = "OPTIONS" THEN 204 ELSE 0,
     next |-> method # "OPTIONS"]

\* the middleware CORSWithConfig(config) returns: the Access-Control-Allow-Origin
\* header, whether the Allow-Methods, Allow-Headers and Allow-Credentials headers
\* are set, the status written (0: none) and whether c.Next() is called
CORSWithConfig(config, origin, method) ==
    LET allowed == \E i \in 1..Len(config.AllowOrigins) :
                       config.AllowOrigins[i] = "*" \/ config.AllowOrigins[i] = origin
    IN [acao |-> IF allowed THEN HeaderSet(IF origin # "" THEN origin ELSE "*") ELSE Unset,
        others |-> TRUE,
        status |-> IF method = "OPTIONS" THEN 204 ELSE 0,
        next |-> method # "OPTIONS"]

\* the configuration of CORS() when the environment names no origins
DefaultCORSConfig == [AllowOrigins |-> <<"*">>]

(***************************************************************************)
(* The request chain of package gofsen.  A Context holds the slice         *)
(* c.middleware (sharing the router's backing array, or owning a private   *)
(* one), the cursor c.middlewareIndex, and the response written so far.    *)
(* Middleware and handlers are user code: a body is the sequence of calls  *)
(* on the Context it makes.                                                *)
(***************************************************************************)
MwKinds == {"pass", "block", "twice"}

\* a Logger() that returns without calling c.Next()
LoggerSwallows == <<>>

\* Logger(): time.Now(), c.Next(), log.Printf(..)
LoggerBody == <<"next">>

\* pass: c.Next() once; block: c.Error(401, ..) and return; twice: c.Next(); c.Next();
\* recovery: Recovery(), c.Next() under a deferred recover; panics: panic(..);
\* cors: CORS(); panicsafter: c.Next(); panic(..); stamps: c.Status(201); c.Next()
MwBody(kind) ==
    CASE kind = "pass" -> <<"next">>
      [] kind = "block" -> <<"err401">>
      [] kind = "twice" -> <<"next", "next">>
      [] kind = "recovery" -> <<"next">>
      [] kind = "panics" -> <<"panic">>
      [] kind = "cors" -> <<"cors">>
      [] kind = "logger" -> LoggerBody
      [] kind = "panicsafter" -> <<"next", "panic">>
      [] kind = "stamps" -> <<"status201", "next">>
      [] OTHER -> <<>>

\* a route handler answers with c.JSON(..)
HandlerBody == <<"json">>

\* the other handlers an application registers: one that panics at once, one that
\* panics after it has answered, one that calls c.Next() after it has answered,
\* one that answers with c.Status(201).JSON(..)
HandlerKinds == {"json", "panic", "jsonpanic", "jsonnext", "created"}

\* a handler is known by its label; the label tells its body
HandlerLabel(kind, n) ==
    CASE kind = "panic" -> 100 + n
      [] kind = "jsonpanic" -> 200 + n
      [] kind = "jsonnext" -> 300 + n
      [] kind = "created" -> 400 + n
      [] OTHER -> n

HandlerKind(h) ==
    CASE h \div 100 = 1 -> "panic"
      [] h \div 100 = 2 -> "jsonpanic"
      [] h \div 100 = 3 -> "jsonnext"
      [] h \div 100 = 4 -> "created"
      [] OTHER -> "json"

HandlerBodyOf(h) ==
    CASE HandlerKind(h) = "panic" -> <<"panic">>
      [] HandlerKind(h) = "jsonpanic" -> <<"json", "panic">>
      [] HandlerKind(h) = "jsonnext" -> <<"json", "next">>
      [] HandlerKind(h) = "created" -> <<"status201", "json">>
      [] OTHER -> HandlerBody

Body(fn) == IF fn.k = "final" THEN HandlerBodyOf(fn.id) ELSE MwBody(fn.kind)

IdleCtx ==
    [pc |-> "idle", method |-> "", path |-> <<>>, route |-> 0, Params |-> EmptyParams,
     mw |-> [shared |-> TRUE, arr |-> <<>>, len |-> 0], idx |-> -1,
     stack |-> <<>>, trace |-> <<>>, status |-> 0, body |-> <<>>,
     hdr |-> [acao |-> Unset, others |-> FALSE], ctype |-> FALSE, sentCtype |-> FALSE]

Ev(ev, fn) == [ev |-> ev, k |-> fn.k, id |-> fn.id]

\* ResponseWriter.WriteHeader(code): only the first call commits; it sends the
\* status with the headers set so far (sentCtype: Content-Type was among them)
WriteHeader(c, code) ==
    IF c.status = 0 THEN [c EXCEPT !.status = code, !.sentCtype = c.ctype] ELSE c

\* a Context.Status that does not reach the ResponseWriter
StatusDropped(c, code) == c

\* Context.Status(code)
Status(c, code) == WriteHeader(c, code)

\* Context.JSON(data): Header().Set("Content-Type", ..), then Encode writes the
\* body, and the first Write commits 200 when no status was written
JSON(c, what) ==
    LET h == [c EXCEPT !.ctype = TRUE]
    IN [WriteHeader(h, 200) EXCEPT !.body = Append(h.body, what)]

\* Context.Status(code).JSON(..)
StatusJSON(c, code, what) == JSON(Status(c, code), what)

\* Context.Error(code, message)
Error(c, code) == StatusJSON(c, code, "error")

\* BeginCtx with the cursor starting at 0 instead of -1
BeginCtxFromZero(rs, len, method, path) ==
    LET f == findRoute(rs, method, path)
        c == [IdleCtx EXCEPT !.method = method, !.path = path, !.idx = 0,
                             !.mw = [shared |-> TRUE, arr |-> <<>>, len |-> len]]
    IN IF f.idx = 0
       THEN [StatusJSON(c, 404, "not_found") EXCEPT !.pc = "done"]
       ELSE [c EXCEPT !.pc = "append", !.route = f.idx, !.Params = f.params]

\* BeginCtx answering a missing route with ctx.JSON(..) alone, without Status(404)
BeginCtxNoStatus(rs, len, method, path) ==
    LET f == findRoute(rs, method, path)
        c == [IdleCtx EXCEPT !.method = method, !.path = path,
                             !.mw = [shared |-> TRUE, arr |-> <<>>, len |-> len]]
    IN IF f.idx = 0
       THEN [JSON(c, "not_found") EXCEPT !.pc = "done"]
       ELSE [c EXCEPT !.pc = "append", !.route = f.idx, !.Params = f.params]

\* ServeHTTP up to and including ctx.Params = params: the Context literal,
\* findRoute, and the 404 answer when no route is found
BeginCtx(rs, len, method, path) ==
    LET f == findRoute(rs, method, path)
        c == [IdleCtx EXCEPT !.method = method, !.path = path,
                             !.mw = [shared |-> TRUE, arr |-> <<>>, len |-> len]]
    IN IF f.idx = 0
       THEN [StatusJSON(c, 404, "not_found") EXCEPT !.pc = "done"]
       ELSE [c EXCEPT !.pc = "append", !.route = f.idx, !.Params = f.params]

\* c.middleware[i] (1-based): read through the slice's array
Elem(W, i) == IF W.c.mw.shared THEN W.arr[i] ELSE W.c.mw.arr[i]

\* ctx.middleware = append(ctx.middleware, finalHandler)
AppendFinal(W) ==
    LET final == FinalFn(W.rs[W.c.route].Handler)
        res == SliceAppend(W.arr, W.c.mw.len, final)
    IN IF W.c.mw.len < Len(W.arr)
       THEN [W EXCEPT !.arr = res.arr, !.c.mw.len = res.len, !.c.pc = "call"]
       ELSE [W EXCEPT !.c.mw = [shared |-> FALSE, arr |-> res.arr, len |-> res.len],
                      !.c.pc = "call"]

\* Next as a continuation bound to the calling step: it enters the step that
\* follows its caller, however often it is called
NextOfCaller(W) ==
    LET n == Len(W.c.stack)
        i == IF n = 0 THEN 0
             ELSE IF W.c.stack[n].fn.k = "final" THEN W.c.mw.len ELSE W.c.stack[n].fn.id
    IN IF i < W.c.mw.len
       THEN [W EXCEPT !.c.idx = i,
                      !.c.stack = Append(W.c.stack, [fn |-> Elem(W, i + 1), pc |-> 1]),
                      !.c.trace = Append(W.c.trace, Ev("enter", Elem(W, i + 1)))]
       ELSE [W EXCEPT !.c.idx = i]

\* Context.Next: advance the cursor and enter the step under it, if any
Next_(W) ==
    LET i == W.c.idx + 1
    IN IF i < W.c.mw.len
       THEN [W EXCEPT !.c.idx = i,
                      !.c.stack = Append(W.c.stack, [fn |-> Elem(W, i + 1), pc |-> 1]),
                      !.c.trace = Append(W.c.trace, Ev("enter", Elem(W, i + 1)))]
       ELSE [W EXCEPT !.c.idx = i]

\* a panic unwinds the stack from frame n down: a frame of Recovery() runs its
\* deferred function (recover, c.Error(500, ..)) and returns normally to its caller;
\* without such a frame the panic leaves ServeHTTP
RECURSIVE Unwind(_, _)
Unwind(c, n) ==
    IF n = 0
    THEN [c EXCEPT !.stack = <<>>, !.pc = "panicked"]
    ELSE IF c.stack[n].fn.kind = "recovery"
         THEN [Error(c, 500) EXCEPT
                  !.stack = SubSeq(c.stack, 1, n - 1),
                  !.trace = c.trace \o <<Ev("recover", c.stack[n].fn), Ev("exit", c.stack[n].fn)>>,
                  !.pc = IF n = 1 THEN "done" ELSE "run"]
         ELSE Unwind(c, n - 1)

\* panic(..) in the running step
Panic(W, fn) ==
    [W EXCEPT !.c = Unwind([W.c EXCEPT !.trace = Append(W.c.trace, Ev("panic", fn))],
                           Len(W.c.stack))]

\* the body of CORS() for a request without Origin header: the headers, then
\* c.Status(204) for OPTIONS and c.Next() otherwise
Cors(W) ==
    LET r == CORSWithConfig(DefaultCORSConfig, "", W.c.method)
        V == [W EXCEPT !.c.hdr = [acao |-> r.acao, others |-> r.others]]
    IN IF r.next THEN Next_(V) ELSE [V EXCEPT !.c = WriteHeader(V.c, r.status)]

\* one call made by the body of the running step
DoOp(W, op, fn) ==
    CASE op = "next" -> Next_(W)
      [] op = "cors" -> Cors(W)
      [] op = "panic" -> Panic(W, fn)
      [] op = "json" -> [W EXCEPT !.c = JSON(W.c, "json")]
      [] op = "status201" -> [W EXCEPT !.c = Status(W.c, 201)]
      [] op = "err401" -> [W EXCEPT !.c = Error(W.c, 401)]
      [] OTHER -> W

\* the running step makes its next call, or returns to its caller
RunStep(W) ==
    LET n == Len(W.c.stack)
        f == W.c.stack[n]
        ops == Body(f.fn)
    IN IF f.pc > Len(ops)
       THEN [W EXCEPT !.c.stack = SubSeq(W.c.stack, 1, n - 1),
                      !.c.trace = Append(W.c.trace, Ev("exit", f.fn)),
                      !.c.pc = IF n = 1 THEN "done" ELSE "run"]
       ELSE DoOp([W EXCEPT !.c.stack[n].pc = f.pc + 1], ops[f.pc], f.fn)

\* one step of ServeHTTP after the route was found
Step(W) ==
    CASE W.c.pc = "append" -> AppendFinal(W)
      [] W.c.pc = "call" -> LET V == Next_(W)
                            IN [V EXCEPT !.c.pc = IF V.c.stack = <<>> THEN "done" ELSE "run"]
      [] W.c.pc = "run" -> RunStep(W)
      [] OTHER -> W

RECURSIVE Run(_)
Run(W) == IF W.c.pc \in {"idle", "done", "panicked"} THEN W ELSE Run(Step(W))

(***************************************************************************)
(* Package gofsen: state and operations.  reg is history, not program      *)
(* state: for each route, the group it was registered through (0: none),   *)
(* the numbers of global and of group middleware registered before it,    *)
(* and the path given to the registering call.  A registration call       *)
(* clears the record of the last request (reqs).                           *)
(***************************************************************************)
Reqs == {1, 2}

Quiet == \A r \in Reqs : reqs[r].pc \in {"idle", "done", "panicked"}

NoReqs == [r \in Reqs |-> IdleCtx]

\* gofsen.New()
GInit ==
    /\ routes = <<>>
    /\ mwArr = <<>>
    /\ mwLen = 0
    /\ groups = <<>>
    /\ reqs = NoReqs
    /\ reg = <<>>

\* Router.Use(middleware)
Use(kind) ==
    /\ Quiet
    /\ LET res == SliceAppend(mwArr, mwLen, MwFn(kind, mwLen + 1))
       IN mwArr' = res.arr /\ mwLen' = res.len
    /\ reqs' = NoReqs
    /\ UNCHANGED <<routes, groups, reg>>

\* Router.GET / POST / .. (path, handler)
Handle(method, path) ==
    /\ Quiet
    /\ routes' = addRoute(routes, method, path, Len(routes) + 1)
    /\ reg' = Append(reg, [grp |-> 0, nmw |-> mwLen, ngmw |-> 0, sfx |-> path])
    /\ reqs' = NoReqs
    /\ UNCHANGED <<mwArr, mwLen, groups>>

\* Router.GET(path, handler) with a handler of the given kind
HandleKind(method, path, kind) ==
    /\ Quiet
    /\ routes' = addRoute(routes, method, path, HandlerLabel(kind, Len(routes) + 1))
    /\ reg' = Append(reg, [grp |-> 0, nmw |-> mwLen, ngmw |-> 0, sfx |-> path])
    /\ reqs' = NoReqs
    /\ UNCHANGED <<mwArr, mwLen, groups>>

\* Router.Group(prefix)
Group(prefix) ==
    /\ Quiet
    /\ groups' = Append(groups, [prefix |-> prefix, middlewares |-> <<>>])
    /\ reqs' = NoReqs
    /\ UNCHANGED <<routes, mwArr, mwLen, reg>>

\* RouteGroup.Use(middleware)
GroupUse(g, kind) ==
    /\ Quiet
    /\ g \in 1..Len(groups)
    /\ groups' = [groups EXCEPT ![g].middlewares =
                     Append(@, [k |-> "gmw", kind |-> kind, id |-> Len(@) + 1])]
    /\ reqs' = NoReqs
    /\ UNCHANGED <<routes, mwArr, mwLen, reg>>

\* RouteGroup.GET that registers the path without the group's prefix
GroupHandleNoPrefix(g, method, path) ==
    /\ Quiet
    /\ g \in 1..Len(groups)
    /\ routes' = addRoute(routes, method, path, Len(routes) + 1)
    /\ reg' = Append(reg, [grp |-> g, nmw |-> mwLen, ngmw |-> Len(groups[g].middlewares),
                           sfx |-> path])
    /\ reqs' = NoReqs
    /\ UNCHANGED <<mwArr, mwLen, groups>>

\* RouteGroup.GET / POST / .. (path, handler)
GroupHandle(g, method, path) ==
    /\ Quiet
    /\ g \in 1..Len(groups)
    /\ routes' = addRoute(routes, method, groups[g].prefix \o path, Len(routes) + 1)
    /\ reg' = Append(reg, [grp |-> g, nmw |-> mwLen, ngmw |-> Len(groups[g].middlewares),
                           sfx |-> path])
    /\ reqs' = NoReqs
    /\ UNCHANGED <<mwArr, mwLen, groups>>

\* Router.ServeHTTP, run to its return on the calling goroutine
ServeHTTP(r, method, path) ==
    /\ Quiet
    /\ LET W == Run([c |-> BeginCtx(routes, mwLen, method, path), arr |-> mwArr, rs |-> routes])
       IN /\ reqs' = [NoReqs EXCEPT ![r] = W.c]
          /\ mwArr' = W.arr
    /\ UNCHANGED <<routes, mwLen, groups, reg>>

\* ServeHTTP of a concurrent request, step by step: the Context and findRoute
CBegin(r, method, path) ==
    /\ reqs[r].pc \in {"idle", "done"}
    /\ reqs' = [reqs EXCEPT ![r] = BeginCtx(routes, mwLen, method, path)]
    /\ UNCHANGED <<routes, mwArr, mwLen, groups, reg>>

\* .. then the append of finalHandler, ctx.Next() and each call or return of the chain
CStep(r) ==
    /\ reqs[r].pc \in {"append", "call", "run"}
    /\ LET W == Step([c |-> reqs[r], arr |-> mwArr, rs |-> routes])
       IN /\ reqs' = [reqs EXCEPT ![r] = W.c]
          /\ mwArr' = W.arr
    /\ UNCHANGED <<routes, mwLen, groups, reg>>

(***************************************************************************)
(* Pattern compilation and matching on its own: one template registered on *)
(* an empty router and one path resolved against it.                       *)
(***************************************************************************)
Rooted(n) == {s \in Strs(n) : Len(s) >= 1 /\ s[1] = "/"}

NoRes == [done |-> FALSE, idx |-> 0, params |-> EmptyParams]

\* no function is under check on its own: no arguments, no result
NoArg == [fn |-> "none"]

NoFRes == [done |-> FALSE]

FInit0 == farg = NoArg /\ fres = NoFRes

MInit0 ==
    /\ tmpl = <<>>
    /\ mpath = <<>>
    /\ mres = NoRes
    /\ FInit0

MInit ==
    /\ tmpl \in Rooted(MaxTmplLen)
    /\ mpath \in Rooted(MaxPathLen)
    /\ mres = NoRes
    /\ FInit0

\* app.GET(tmpl, h) on a new router, then findRoute("GET", mpath)
Resolve ==
    /\ ~mres.done
    /\ LET f == findRoute(addRoute(<<>>, "GET", tmpl, 1), "GET", mpath)
       IN mres' = [done |-> TRUE, idx |-> f.idx, params |-> f.params]
    /\ UNCHANGED <<tmpl, mpath, farg, fres>>

(***************************************************************************)
(* The CORS middleware of package gofsen on its own: CORSWithConfig(config) *)
(* applied to a request with the given Origin header and method.           *)
(***************************************************************************)
AllowEntries == {"*", "https://a.com", "https://b.com"}

OriginValues == {"", "https://a.com", "https://b.com"}

CorsInit ==
    /\ farg \in [fn : {"cors"}, AllowOrigins : SeqsUpTo(AllowEntries, MaxOrigins),
                  origin : OriginValues, method : {"GET", "OPTIONS"}]
    /\ fres = NoFRes

\* the middleware runs for the request
ApplyCors ==
    /\ farg.fn = "cors" /\ ~fres.done
    /\ fres' = [done |-> TRUE, out |-> CORSWithConfig(farg, farg.origin, farg.method)]
    /\ UNCHANGED farg

(***************************************************************************)
(* Inputs.                                                                 *)
(***************************************************************************)
PA == <<"/", "a">>
PG == <<"/", "g">>
PGA == PG \o PA
PX == <<"/", "x">>
PB == <<"/", "b">>

Methods == {"GET", "POST"}

\* "/a", "/a/a", "/a/:i", "/:j/a"
Templates == {PA, PA \o PA, PA \o <<"/", ":", "i">>, <<"/", ":", "j">> \o PA}

\* "/a", "/a/a", "/a/", "/a/a/a", "/x/a"
ReqPaths == {PA, PA \o PA, PA \o <<"/">>, PA \o PA \o PA, PX \o PA}

(***************************************************************************)
(* Package internal/router.  r.routes maps a method to a map from path to  *)
(* handler; paths are plain strings, matched by equality.  A Middleware is *)
(* a function from the next handler to a handler, so a handler wrapped in  *)
(* middleware is kept as the chain of middleware around it, outermost      *)
(* first, and the wrapped handler h.  ireg is history: the registrations   *)
(* in order, each with the middleware its group had at that time.          *)
(***************************************************************************)
IMw(kind, name) == [kind |-> kind, name |-> name]

IHandler(h) == [chain |-> <<>>, h |-> h]

\* mw(next): the handler that runs mw around next
IApply(mw, next) == [chain |-> <<mw>> \o next.chain, h |-> next.h]

\* the wrapping loop run from the first middleware to the last
RECURSIVE WrapForward(_, _, _)
WrapForward(mws, i, final) ==
    IF i < 1 THEN final
    ELSE WrapForward(mws, i - 1, IApply(mws[Len(mws) + 1 - i], final))

\* for i := len(mws) - 1; i >= 0; i-- { finalHandler = mws[i](finalHandler) }
RECURSIVE Wrap(_, _, _)
Wrap(mws, i, final) ==
    IF i < 1 THEN final ELSE Wrap(mws, i - 1, IApply(mws[i], final))

\* r.routes[method][path] = handler, creating the method's map when it is nil
RoutesPut(rts, method, path, handler) ==
    LET old == IF method \in DOMAIN rts THEN rts[method] ELSE [q \in {} |-> IHandler(0)]
        new == [q \in (DOMAIN old) \cup {path} |-> IF q = path THEN handler ELSE old[q]]
    IN [m \in (DOMAIN rts) \cup {method} |-> IF m = method THEN new ELSE rts[m]]

\* strings.TrimSpace, for the blank
RECURSIVE TrimSpace(_)
TrimSpace(s) ==
    IF Len(s) = 0 THEN s
    ELSE IF SubSeq(s, 1, 1) = " " THEN TrimSpace(SubSeq(s, 2, Len(s)))
    ELSE IF SubSeq(s, Len(s), Len(s)) = " " THEN TrimSpace(SubSeq(s, 1, Len(s) - 1))
    ELSE s

\* utils.ValidateToken
ValidateToken(token) == TrimSpace(token) = "Bearer valid-token"

\* the routes NewRouter registers (RegisterHealthRoutes, RegisterTestRoutes,
\* RegisterErrorDemoRoutes), in order: method, full path, middleware of the group
\* the route is registered through (none for a route of the Router itself)
AuthMw == IMw("auth", "Auth")
CorsMw == IMw("cors", "Cors")
HeaderMw == IMw("pass", "Header")
DemoAuthMw == IMw("demoauth", "DemoAuth")

NewRouterRegs ==
    << [method |-> "GET", path |-> "/health", gmws |-> <<>>],
       [method |-> "GET", path |-> "/api/me", gmws |-> <<AuthMw>>],
       [method |-> "GET", path |-> "/test/get", gmws |-> <<>>],
       [method |-> "POST", path |-> "/test/post", gmws |-> <<>>],
       [method |-> "PUT", path |-> "/test/put", gmws |-> <<>>],
       [method |-> "DELETE", path |-> "/test/delete", gmws |-> <<>>],
       [method |-> "PATCH", path |-> "/test/patch", gmws |-> <<>>],
       [method |-> "GET", path |-> "/test/group/basic", gmws |-> <<HeaderMw>>],
       [method |-> "GET", path |-> "/test/logger", gmws |-> <<>>],
       [method |-> "GET", path |-> "/test/auth/protected", gmws |-> <<AuthMw>>],
       [method |-> "GET", path |-> "/test/auth/public", gmws |-> <<>>],
       [method |-> "GET", path |-> "/test/recovery", gmws |-> <<>>],
       [method |-> "GET", path |-> "/test/cors/check", gmws |-> <<CorsMw>>],
       [method |-> "GET", path |-> "/test/json", gmws |-> <<>>],
       [method |-> "GET", path |-> "/test/query", gmws |-> <<>>],
       [method |-> "POST", path |-> "/test/bind", gmws |-> <<>>],
       [method |-> "GET", path |-> "/test/error", gmws |-> <<>>],
       [method |-> "POST", path |-> "/test/multi/combined", gmws |-> <<CorsMw, HeaderMw>>],
       [method |-> "GET", path |-> "/test/all", gmws |-> <<>>],
       [method |-> "GET", path |-> "/demo/errors", gmws |-> <<>>],
       [method |-> "GET", path |-> "/demo/errors/validate", gmws |-> <<>>],
       [method |-> "GET", path |-> "/demo/errors/protected", gmws |-> <<DemoAuthMw>>],
       [method |-> "GET", path |-> "/demo/errors/panic", gmws |-> <<>>],
       [method |-> "GET", path |-> "/demo/errors/codes", gmws |-> <<>>] >>

\* RouteGroup.Handle that stores the handler without the group's middleware
GroupHandleUnbound(rts, method, fullPath, gmws, h) ==
    RoutesPut(rts, method, fullPath, IHandler(h))

\* RouteGroup.Handle: wrap the handler in the group's middleware, then Router.Handle;
\* for a route of the Router itself gmws is empty and this is Router.Handle
GroupHandleOp(rts, method, fullPath, gmws, h) ==
    RoutesPut(rts, method, fullPath, Wrap(gmws, Len(gmws), IHandler(h)))

RECURSIVE RegisterAll(_, _, _)
RegisterAll(rts, regs, i) ==
    IF i > Len(regs) THEN rts
    ELSE RegisterAll(GroupHandleOp(rts, regs[i].method, regs[i].path, regs[i].gmws, i), regs, i + 1)

NoRoutes == [m \in {} |-> [q \in {} |-> IHandler(0)]]

NoGroups == [g \in {} |-> <<>>]

NoIRes == [kind |-> "none", method |-> "", path |-> "", auth |-> "", level |-> 1,
           status |-> 0, trace |-> <<>>, allowed |-> <<>>, writes |-> <<>>, log |-> <<>>]

IInit0 ==
    /\ iroutes = NoRoutes
    /\ imws = <<>>
    /\ igroups = NoGroups
    /\ ires = NoIRes
    /\ ireg = <<>>

\* router.NewRouter()
IInit ==
    /\ iroutes = RegisterAll(NoRoutes, NewRouterRegs, 1)
    /\ imws = <<>>
    /\ igroups = NoGroups
    /\ ires = NoIRes
    /\ ireg = [i \in 1..Len(NewRouterRegs) |->
                 [method |-> NewRouterRegs[i].method, path |-> NewRouterRegs[i].path,
                  grp |-> NewRouterRegs[i].gmws # <<>>, gmws |-> NewRouterRegs[i].gmws]]

\* Router.Use(mw)
IUse(mw) ==
    /\ imws' = Append(imws, mw)
    /\ ires' = NoIRes
    /\ UNCHANGED <<iroutes, igroups, ireg>>

\* Router.Group(prefix): a new group without middleware
IGroup(prefix) ==
    /\ igroups' = [g \in (DOMAIN igroups) \cup {prefix} |->
                      IF g = prefix THEN <<>> ELSE igroups[g]]
    /\ ires' = NoIRes
    /\ UNCHANGED <<iroutes, imws, ireg>>

\* RouteGroup.Use(mw)
IGroupUse(g, mw) ==
    /\ g \in DOMAIN igroups
    /\ igroups' = [igroups EXCEPT ![g] = Append(@, mw)]
    /\ ires' = NoIRes
    /\ UNCHANGED <<iroutes, imws, ireg>>

\* RouteGroup.GET / POST / .. (path, handler)
IGroupHandle(g, method, path) ==
    /\ g \in DOMAIN igroups
    /\ iroutes' = GroupHandleOp(iroutes, method, g \o path, igroups[g], Len(ireg) + 1)
    /\ ireg' = Append(ireg, [method |-> method, path |-> g \o path,
                             grp |-> TRUE, gmws |-> igroups[g]])
    /\ ires' = NoIRes
    /\ UNCHANGED <<imws, igroups>>

\* Router.GET / POST / .. (path, handler)
IHandle(method, path) ==
    /\ iroutes' = RoutesPut(iroutes, method, path, IHandler(Len(ireg) + 1))
    /\ ireg' = Append(ireg, [method |-> method, path |-> path, grp |-> FALSE, gmws |-> <<>>])
    /\ ires' = NoIRes
    /\ UNCHANGED <<imws, igroups>>

\* an event of the request: a middleware (by name, h = 0) or the handler h is
\* entered or left
IEv(ev, name, h) == [ev |-> ev, name |-> name, h |-> h]

\* utils.LogLevel and the default logger
LogDebug == 0
LogInfo == 1
EnableDetailedErrors == TRUE

Min(a, b) == IF a < b THEN a ELSE b

\* utils.maskAuthHeader
maskAuthHeader(auth) ==
    IF auth = "" THEN ""
    ELSE IF Len(auth) <= 10 THEN "***"
    ELSE SubSeq(auth, 1, 10) \o "***"

\* a line written with log.Printf: what it reports, and the text taken from the
\* Authorization header that it shows ("" when none)
LogLine(what, header) == [what |-> what, header |-> header]

\* GofsenLogger.LogAuthFailure
LogAuthFailure(st, req, reason) ==
    LET line == LogLine(reason, "")
        more == IF req.level <= LogDebug
                THEN IF req.auth # ""
                     THEN <<LogLine("Auth header present",
                                    SubSeq(req.auth, 1, Min(Len(req.auth), 20)) \o "...")>>
                     ELSE <<LogLine("No Authorization header", "")>>
                ELSE <<>>
    IN [st EXCEPT !.log = (st.log \o <<line>>) \o more]

\* the keys of the JSON object ErrorResponse (message is never empty, request_id
\* always is)
ErrorKeys == {"error", "message", "path", "method", "timestamp", "code"}

\* what a response body holds: who wrote it, the code field, the keys of the
\* object, the keys of its details, details.allowed_methods, headers.Authorization
\* and details.provided_token
Body_(by, code, keys, dkeys, allowed, hauth, token) ==
    [by |-> by, code |-> code, keys |-> keys, dkeys |-> dkeys, allowed |-> allowed,
     hauth |-> hauth, token |-> token]

\* ctx.Writer.WriteHeader(code): the first status stands
IWrite(st, code) == [st EXCEPT !.status = IF st.status = 0 THEN code ELSE st.status]

\* GofsenLogger.SendDetailedError(ctx, code, message, details); details is given
\* by its keys, its allowed_methods and its provided_token
SendDetailedError(st, req, code, dkeys, allowed, token) ==
    LET detailed == EnableDetailedErrors /\ req.level <= LogDebug
        body == IF detailed
                THEN Body_("SendDetailedError", code, ErrorKeys \cup {"details", "headers"},
                           dkeys, allowed, maskAuthHeader(req.auth), token)
                ELSE Body_("SendDetailedError", code, ErrorKeys, {}, <<>>, "", "")
    IN [IWrite(st, code) EXCEPT !.writes = Append(st.writes, body)]

\* the loop of SuggestSimilarRoutes from the i-th route on: a route is kept when
\* neither string is empty and the first characters are equal, or both strings
\* are longer than 3 and their last 3 characters are equal
RECURSIVE SuggestFrom(_, _, _)
SuggestFrom(requestedPath, availableRoutes, i) ==
    IF i > Len(availableRoutes) THEN <<>>
    ELSE LET route == availableRoutes[i]
             keep == /\ Len(route) > 0 /\ Len(requestedPath) > 0
                     /\ \/ SubSeq(route, 1, 1) = SubSeq(requestedPath, 1, 1)
                        \/ /\ Len(route) > 3 /\ Len(requestedPath) > 3
                           /\ SubSeq(route, Len(route) - 2, Len(route))
                                = SubSeq(requestedPath, Len(requestedPath) - 2, Len(requestedPath))
         IN (IF keep THEN <<route>> ELSE <<>>) \o SuggestFrom(requestedPath, availableRoutes, i + 1)

\* SuggestSimilarRoutes without the cut to three entries
SuggestAll(requestedPath, availableRoutes) == SuggestFrom(requestedPath, availableRoutes, 1)

\* utils.SuggestSimilarRoutes(requestedPath, availableRoutes)
SuggestSimilarRoutes(requestedPath, availableRoutes) ==
    LET suggestions == SuggestFrom(requestedPath, availableRoutes, 1)
    IN IF Len(suggestions) > 3 THEN SubSeq(suggestions, 1, 3) ELSE suggestions

\* the 404 branch of ServeHTTP for a router whose map iteration yields
\* availableRoutes: the suggestions are computed and handed to SendDetailedError,
\* which puts the details into the body in detailed mode only
NotFoundBody(level, requestedPath, availableRoutes) ==
    LET suggestions == SuggestSimilarRoutes(requestedPath, availableRoutes)
        detailed == EnableDetailedErrors /\ level <= LogDebug
    IN IF detailed
       THEN [keys |-> ErrorKeys \cup {"details", "headers"},
             dkeys |-> {"suggestions", "available_routes", "tip"},
             suggestions |-> suggestions, available_routes |-> availableRoutes]
       ELSE [keys |-> ErrorKeys, dkeys |-> {}, suggestions |-> <<>>, available_routes |-> <<>>]

\* ctx.JSON(200, ..) of a route handler
HandlerJSON(st) ==
    [IWrite(st, 200) EXCEPT !.writes = Append(st.writes, Body_("handler", 200, {}, {}, <<>>, "", ""))]

\* ICalls with an AuthMiddleware that lets every non-empty header through
ICallsAnyToken(mw, req) ==
    CASE mw.kind = "pass" -> TRUE
      [] mw.kind = "block" -> FALSE
      [] mw.kind \in {"auth", "demoauth"} -> req.auth # ""
      [] mw.kind = "cors" -> req.method # "OPTIONS"
      [] OTHER -> TRUE

\* whether the middleware calls next for the request
ICalls(mw, req) ==
    CASE mw.kind = "pass" -> TRUE
      [] mw.kind = "block" -> FALSE
      [] mw.kind \in {"auth", "demoauth"} -> req.auth # "" /\ ValidateToken(req.auth)
      [] mw.kind = "cors" -> req.method # "OPTIONS"
      [] OTHER -> TRUE

\* what a middleware does when it does not call next: AuthMiddleware and the demo
\* middleware log and send a 401, CorsMiddleware answers the preflight with 200,
\* a blocking middleware of the application answers 401 with ctx.Error
IRefuse(mw, req, st) ==
    CASE mw.kind = "auth" ->
           SendDetailedError(
               LogAuthFailure(st, req, IF req.auth = "" THEN "Missing Authorization header"
                                       ELSE "Invalid token"),
               req, 401,
               IF req.auth = "" THEN {"required_format", "example"} ELSE {"token_format", "note"},
               <<>>, "")
      [] mw.kind = "demoauth" ->
           SendDetailedError(
               LogAuthFailure(st, req, IF req.auth = "" THEN "Demo route - missing auth"
                                       ELSE "Demo route - invalid token"),
               req, 401,
               IF req.auth = ""
               THEN {"demo_note", "required_header", "example_curl", "valid_tokens"}
               ELSE {"provided_token", "valid_format", "demo_tokens", "note"},
               <<>>, IF req.auth = "" THEN "" ELSE maskAuthHeader(req.auth))
      [] mw.kind = "cors" -> IWrite(st, 200)
      [] OTHER ->
           [IWrite(st, 401) EXCEPT
               !.writes = Append(st.writes, Body_("Error", 401, {"error"}, {}, <<>>, "", ""))]

\* finalHandler(ctx): each middleware of the chain in turn, then the handler.
\* pass calls next once and block never; auth (AuthMiddleware) answers 401 unless
\* the Authorization header holds the valid token; cors (CorsMiddleware) answers
\* an OPTIONS request itself
RECURSIVE IRun(_, _, _, _)
IRun(chain, h, req, st) ==
    IF chain = <<>>
    THEN [HandlerJSON(st) EXCEPT !.trace = st.trace \o <<IEv("enter", "", h), IEv("exit", "", h)>>]
    ELSE LET mw == Head(chain)
             in == [st EXCEPT !.trace = Append(st.trace, IEv("enter", mw.name, 0))]
             out == IF ICalls(mw, req) THEN IRun(Tail(chain), h, req, in)
                    ELSE IRefuse(mw, req, in)
         IN [out EXCEPT !.trace = Append(out.trace, IEv("exit", mw.name, 0))]

\* the orders in which ranging over the map r.routes can visit the set S of methods
RECURSIVE Orders(_)
Orders(S) ==
    IF S = {} THEN {<<>>}
    ELSE UNION {{<<m>> \o o : o \in Orders(S \ {m})} : m \in S}

\* a request before it is served
IStart(req) == [status |-> 0, trace |-> <<>>, writes |-> <<>>, log |-> <<>>]

\* Router.ServeHTTP without the return after finalHandler(ctx): the dispatcher
\* goes on to its own diagnostics after the chain has run
IServeFallsThrough(req) ==
    LET res == [NoIRes EXCEPT !.method = req.method, !.path = req.path,
                              !.auth = req.auth, !.level = req.level]
        done(kind, st) == [res EXCEPT !.kind = kind, !.status = st.status, !.trace = st.trace,
                                      !.writes = st.writes, !.log = st.log]
        routed == req.method \in DOMAIN iroutes /\ req.path \in DOMAIN iroutes[req.method]
        ran == IF routed
               THEN LET final == Wrap(imws, Len(imws), iroutes[req.method][req.path])
                    IN IRun(final.chain, final.h, req, IStart(req))
               ELSE IStart(req)
        methods == {m \in DOMAIN iroutes : req.path \in DOMAIN iroutes[m]}
    IN /\ IF methods # {}
          THEN \E allowedMethods \in Orders(methods) :
                  ires' = [done(IF routed THEN "route" ELSE "405",
                                SendDetailedError(ran, req, 405,
                                    {"allowed_methods", "suggestion"}, allowedMethods, ""))
                           EXCEPT !.allowed = allowedMethods]
          ELSE ires' = done("404",
                            SendDetailedError(ran, req, 404,
                                {"suggestions", "available_routes", "tip"}, <<>>, ""))
       /\ UNCHANGED <<iroutes, imws, igroups, ireg>>

\* Router.ServeHTTP for a request given by method, path, Authorization header and
\* the level the logger has while it is served
IServe(req) ==
    LET res == [NoIRes EXCEPT !.method = req.method, !.path = req.path,
                              !.auth = req.auth, !.level = req.level]
        done(kind, st) == [res EXCEPT !.kind = kind, !.status = st.status, !.trace = st.trace,
                                      !.writes = st.writes, !.log = st.log]
    IN /\ IF req.method \in DOMAIN iroutes /\ req.path \in DOMAIN iroutes[req.method]
          THEN LET final == Wrap(imws, Len(imws), iroutes[req.method][req.path])
               IN ires' = done("route", IRun(final.chain, final.h, req, IStart(req)))
          ELSE LET methods == {m \in DOMAIN iroutes : req.path \in DOMAIN iroutes[m]}
               IN IF methods # {}
                  THEN \E allowedMethods \in Orders(methods) :
                          ires' = [done("405",
                                        SendDetailedError(IStart(req), req, 405,
                                            {"allowed_methods", "suggestion"},
                                            allowedMethods, ""))
                                   EXCEPT !.allowed = allowedMethods]
                  ELSE ires' = done("404",
                                    SendDetailedError(IStart(req), req, 404,
                                        {"suggestions", "available_routes", "tip"}, <<>>, ""))
       /\ UNCHANGED <<iroutes, imws, igroups, ireg>>

\* Router.ServeHTTP with the default logger
IServeHTTP(method, path, auth) ==
    IServe([method |-> method, path |-> path, auth |-> auth, level |-> LogInfo])

IMethods == {"GET", "POST", "OPTIONS"}

IPaths == {"/v/x", "/api/me", "/test/multi/combined", "/nope"}

Tokens == {"", "Bearer valid-token", "Bearer wrong", "Bearer valid-token ", " "}

\* the requests served: every method on every path, and every token on the
\* path behind AuthMiddleware
IReqs == {q \in [method : IMethods, path : IPaths, auth : Tokens] :
            q.auth = "" \/ q.path = "/api/me"}

Names(mws) == {mws[i].name : i \in 1..Len(mws)}

GlobalMws == {IMw("pass", "A"), IMw("pass", "B")}

GroupMws == {IMw("pass", "C"), IMw("block", "D")}

(***************************************************************************)
(* Specifications.                                                         *)
(***************************************************************************)
\* what the other programs of the module keep while package gofsen runs
Rest == UNCHANGED <<mvars, ivars>>

\* package gofsen, one request at a time: global middleware and the chain
Init == GInit /\ MInit0 /\ IInit0

Next ==
    \/ \E k \in MwKinds : mwLen < MaxMws /\ Use(k) /\ Rest
    \/ \E p \in {PA, PB} : Len(routes) < MaxChainRoutes /\ Handle("GET", p) /\ Rest
    \/ \E p \in {PA, PB, PX} : ServeHTTP(1, "GET", p) /\ Rest

Spec == Init /\ [][Next]_vars

\* package gofsen, one request at a time: route groups and their middleware
GroupNext ==
    \/ mwLen < MaxMwsG /\ Use("pass") /\ Rest
    \/ Len(routes) < MaxChainRoutes /\ Handle("GET", PA) /\ Rest
    \/ Len(groups) < MaxGroups /\ Group(PG) /\ Rest
    \/ \E g \in 1..Len(groups), k \in {"pass", "block"} :
          Len(groups[g].middlewares) < MaxGroupMws /\ GroupUse(g, k) /\ Rest
    \/ \E g \in 1..Len(groups) : Len(routes) < MaxChainRoutes /\ GroupHandle(g, "GET", PA) /\ Rest
    \/ \E p \in {PA, PGA, PX} : ServeHTTP(1, "GET", p) /\ Rest

SpecGroup == Init /\ [][GroupNext]_vars

\* "", "/a", "/:j"
GroupPrefixes == {<<>>, PA, <<"/", ":", "j">>}

\* "/a", "/:i"
GroupSuffixes == {PA, <<"/", ":", "i">>}

\* package gofsen, one request at a time: routes registered through a group and
\* on the Router, and their resolution
GroupRouteNext ==
    \/ \E P \in GroupPrefixes : Len(groups) < MaxGroups /\ Group(P) /\ Rest
    \/ \E g \in 1..Len(groups), S \in GroupSuffixes :
          Len(routes) < MaxChainRoutes /\ GroupHandle(g, "GET", S) /\ Rest
    \/ \E t \in {PA, PA \o PA} : Len(routes) < MaxChainRoutes /\ Handle("GET", t) /\ Rest
    \/ \E p \in ReqPaths : ServeHTTP(1, "GET", p) /\ Rest

SpecGroupRoute == Init /\ [][GroupRouteNext]_vars

\* package gofsen, one request at a time: the route table and its resolution
RouteNext ==
    \/ \E m \in Methods, t \in Templates : Len(routes) < MaxRoutes /\ Handle(m, t) /\ Rest
    \/ \E m \in Methods, p \in ReqPaths : ServeHTTP(1, m, p) /\ Rest

SpecRoute == Init /\ [][RouteNext]_vars

\* package gofsen, one request at a time: Recovery, panics and repeated Next
PanicNext ==
    \/ \E k \in {"pass", "twice", "recovery", "panics"} : mwLen < MaxMws /\ Use(k) /\ Rest
    \/ \E k \in HandlerKinds :
          Len(routes) < MaxPanicRoutes /\ HandleKind("GET", PA, k) /\ Rest
    \/ \E p \in {PA, PX} : ServeHTTP(1, "GET", p) /\ Rest

SpecPanic == Init /\ [][PanicNext]_vars

\* package gofsen, one request at a time: Logger() among other middleware
LoggerNext ==
    \/ \E k \in {"logger", "block", "twice", "recovery", "panics", "stamps"} :
          mwLen < MaxMws /\ Use(k) /\ Rest
    \/ \E k \in HandlerKinds :
          Len(routes) < MaxPanicRoutes /\ HandleKind("GET", PA, k) /\ Rest
    \/ \E p \in {PA, PX} : ServeHTTP(1, "GET", p) /\ Rest

SpecLogger == Init /\ [][LoggerNext]_vars

\* package gofsen, one request at a time: Recovery() at any position among
\* middleware that panic before or after Next, stop the chain or call Next twice
RecoverNext ==
    \/ \E k \in {"recovery", "panics", "panicsafter", "block", "twice"} :
          mwLen < MaxRecMws /\ Use(k) /\ Rest
    \/ \E k \in {"json", "panic"} :
          Len(routes) < MaxPanicRoutes /\ HandleKind("GET", PA, k) /\ Rest
    \/ \E p \in {PA, PX} : ServeHTTP(1, "GET", p) /\ Rest

SpecRecover == Init /\ [][RecoverNext]_vars

\* package gofsen, one request at a time: CORS() and preflight requests
CorsNext ==
    \/ \E k \in {"cors", "pass"} : mwLen < MaxMws /\ Use(k) /\ Rest
    \/ \E p \in {PA, PB} : Len(routes) < MaxChainRoutes /\ Handle("GET", p) /\ Rest
    \/ \E m \in {"GET", "OPTIONS"}, p \in {PA, PB, PX} : ServeHTTP(1, m, p) /\ Rest

SpecCors == Init /\ [][CorsNext]_vars

\* package gofsen, two requests served concurrently
ConcNext ==
    \/ mwLen < MaxConcMws /\ Use("pass") /\ Rest
    \/ \E p \in {PA, PB} : Len(routes) < MaxChainRoutes /\ Handle("GET", p) /\ Rest
    \/ \E r \in Reqs, p \in {PA, PB, PX} : CBegin(r, "GET", p) /\ Rest
    \/ \E r \in Reqs : CStep(r) /\ Rest

SpecConc == Init /\ [][ConcNext]_vars

\* package internal/router, one request at a time
InternalInit == GInit /\ MInit0 /\ IInit

\* the application registers each of its middleware functions once
IRegNext ==
    \/ \E mw \in GlobalMws :
          mw.name \notin Names(imws) /\ IUse(mw) /\ UNCHANGED <<gvars, mvars>>
    \/ "/v" \notin DOMAIN igroups /\ IGroup("/v") /\ UNCHANGED <<gvars, mvars>>
    \/ \E mw \in GroupMws :
          /\ "/v" \in DOMAIN igroups
          /\ mw.name \notin Names(igroups["/v"])
          /\ IGroupUse("/v", mw) /\ UNCHANGED <<gvars, mvars>>
    \/ /\ Len(ireg) < Len(NewRouterRegs) + MaxIRoutes
       /\ IGroupHandle("/v", "GET", "/x") /\ UNCHANGED <<gvars, mvars>>
    \/ \E m \in {"GET", "POST"} :
          /\ Len(ireg) < Len(NewRouterRegs) + MaxIRoutes
          /\ IHandle(m, "/v/x") /\ UNCHANGED <<gvars, mvars>>

\* requests served with the default logger
IDefaultNext ==
    \E q \in IReqs : IServeHTTP(q.method, q.path, q.auth) /\ UNCHANGED <<gvars, mvars>>

InternalNext ==
    \/ IRegNext
    \/ IDefaultNext
    \/ \E q \in IReqs :
          /\ IServe([method |-> q.method, path |-> q.path, auth |-> q.auth, level |-> LogDebug])
          /\ UNCHANGED <<gvars, mvars>>

SpecInternal == InternalInit /\ [][InternalNext]_vars

\* either router on its own: a gofsen Router beside an untouched internal/router
\* Router, or the reverse
BothNext ==
    \/ IInit /\ RouteNext
    \/ GInit /\ (IRegNext \/ IDefaultNext)

SpecBoth == InternalInit /\ [][BothNext]_vars

\* pattern compilation and matching over every template and path of the bounds
MatchInit == GInit /\ MInit /\ IInit0

MatchNext == Resolve /\ UNCHANGED <<gvars, ivars>>

SpecMatch == MatchInit /\ [][MatchNext]_vars

\* CORSWithConfig over every allow-list, Origin and method of the bounds
CorsFnInit ==
    /\ GInit /\ IInit0
    /\ tmpl = <<>> /\ mpath = <<>> /\ mres = NoRes
    /\ CorsInit

CorsFnNext == ApplyCors /\ UNCHANGED <<gvars, ivars, tmpl, mpath, mres>>

SpecCorsFn == CorsFnInit /\ [][CorsFnNext]_vars

\* utils.SuggestSimilarRoutes and the 404 body built from it, for every requested
\* path and every list of routes up to MaxAvail entries
MaxAvail == 4

RouteStrings == {"", "/a", "/users", "busers", "ers"}

SuggestInit ==
    /\ farg \in [fn : {"suggest"}, requestedPath : RouteStrings,
                  availableRoutes : SeqsUpTo(RouteStrings, MaxAvail),
                  level : {LogDebug, LogInfo}]
    /\ fres = NoFRes

\* a request for requestedPath that no route answers
ApplySuggest ==
    /\ farg.fn = "suggest" /\ ~fres.done
    /\ fres' = [done |-> TRUE,
                out |-> SuggestSimilarRoutes(farg.requestedPath, farg.availableRoutes),
                body |-> NotFoundBody(farg.level, farg.requestedPath, farg.availableRoutes)]
    /\ UNCHANGED farg

SuggestFnInit ==
    /\ GInit /\ IInit0
    /\ tmpl = <<>> /\ mpath = <<>> /\ mres = NoRes
    /\ SuggestInit

SuggestFnNext == ApplySuggest /\ UNCHANGED <<gvars, ivars, tmpl, mpath, mres>>

SpecSuggest == SuggestFnInit /\ [][SuggestFnNext]_vars

(***************************************************************************)
(* The query string of package gofsen.  ServeHTTP calls parseQuery for the *)
(* Context literal of each request, before findRoute.                      *)
(***************************************************************************)
MaxQueryLen == 6

QueryChars == {"k", "=", "&", "1"}

\* the strings over QueryChars of length at most n
RECURSIVE QueryStrs(_)
QueryStrs(n) ==
    IF n = 0 THEN {""}
    ELSE LET shorter == QueryStrs(n - 1)
         IN shorter \cup {s \o c : s \in shorter, c \in QueryChars}

\* strings.Index(s, c) for a one-character c, 1-based; 0 when c is not in s
StrIndex(s, c) ==
    LET hits == {i \in 1..Len(s) : SubSeq(s, i, i) = c}
    IN IF hits = {} THEN 0 ELSE CHOOSE i \in hits : \A j \in hits : i <= j

\* strings.Split(s, c)
RECURSIVE Split(_, _)
Split(s, c) ==
    LET i == StrIndex(s, c)
    IN IF i = 0 THEN <<s>>
       ELSE <<SubSeq(s, 1, i - 1)>> \o Split(SubSeq(s, i + 1, Len(s)), c)

\* strings.SplitN(s, c, 2)
SplitN2(s, c) ==
    LET i == StrIndex(s, c)
    IN IF i = 0 THEN <<s>> ELSE <<SubSeq(s, 1, i - 1), SubSeq(s, i + 1, Len(s))>>

\* make(map[string]string)
EmptyQuery == [k \in {} |-> ""]

\* query[key] = value
QueryPut(query, key, value) ==
    [k \in (DOMAIN query) \cup {key} |-> IF k = key THEN value ELSE query[k]]

\* the loop of parseQuery that keeps the first value of a key
RECURSIVE parsePairsFirst(_, _, _)
parsePairsFirst(pairs, i, query) ==
    IF i > Len(pairs) THEN query
    ELSE LET parts == SplitN2(pairs[i], "=")
         IN parsePairsFirst(pairs, i + 1,
                IF Len(parts) = 2 /\ parts[1] \notin DOMAIN query
                THEN QueryPut(query, parts[1], parts[2]) ELSE query)

\* the loop of parseQuery over the pairs from the i-th on
RECURSIVE parsePairs(_, _, _)
parsePairs(pairs, i, query) ==
    IF i > Len(pairs) THEN query
    ELSE LET parts == SplitN2(pairs[i], "=")
         IN parsePairs(pairs, i + 1,
                IF Len(parts) = 2 THEN QueryPut(query, parts[1], parts[2]) ELSE query)

\* parseQuery(rawQuery)
parseQuery(rawQuery) ==
    IF rawQuery = "" THEN EmptyQuery ELSE parsePairs(Split(rawQuery, "&"), 1, EmptyQuery)

\* Context.QueryParam(key): c.Query[key], the empty string for a missing key
QueryParam(query, key) == IF key \in DOMAIN query THEN query[key] ELSE ""

\* the raw query of the second request
OtherQueries == {"", "k=1"}

\* two requests, each with its raw query
QueryInit ==
    /\ farg \in {[fn |-> "query", raw |-> <<s, o>>] :
                    s \in QueryStrs(MaxQueryLen), o \in OtherQueries}
    /\ fres = NoFRes

\* ServeHTTP builds the Context of request r: Query: parseQuery(req.URL.RawQuery)
ServeQuery(r) ==
    /\ farg.fn = "query"
    /\ IF fres.done THEN r \notin DOMAIN fres.Query ELSE TRUE
    /\ LET old == IF fres.done THEN fres.Query ELSE [q \in {} |-> EmptyQuery]
       IN fres' = [done |-> TRUE,
                   Query |-> [q \in (DOMAIN old) \cup {r} |->
                                 IF q = r THEN parseQuery(farg.raw[r]) ELSE old[q]]]
    /\ UNCHANGED farg

QueryFnInit ==
    /\ GInit /\ IInit0
    /\ tmpl = <<>> /\ mpath = <<>> /\ mres = NoRes
    /\ QueryInit

QueryFnNext == \E r \in Reqs : ServeQuery(r) /\ UNCHANGED <<gvars, ivars, tmpl, mpath, mres>>

SpecQuery == QueryFnInit /\ [][QueryFnNext]_vars

(***************************************************************************)
(* Properties.                                                             *)
(***************************************************************************)
\* the events of the trace that enter a step
IEnters(trace) == SelectSeq(trace, LAMBDA e : e.ev = "enter")

\* the registration in force for (method, path): the last one in ireg
IRegOf(method, path) ==
    LET S == {i \in 1..Len(ireg) : ireg[i].method = method /\ ireg[i].path = path}
    IN CHOOSE i \in S : \A j \in S : j <= i

IReq == [method |-> ires.method, path |-> ires.path, auth |-> ires.auth]

IAllCall(mws) == \A i \in 1..Len(mws) : ICalls(mws[i], IReq)

IExpected(mws, h) ==
    [i \in 1..Len(mws) + 1 |->
        IF i <= Len(mws) THEN IEv("enter", mws[i].name, 0) ELSE IEv("enter", "", h)]

\* C1: a request that resolves to a route registered through a group, all of whose
\* middleware call next, enters the Router's middleware in the order of Router.Use,
\* then the middleware the group had when the route was registered in the order
\* of RouteGroup.Use, then the route's handler, each exactly once
C1_GlobalThenGroupThenHandler ==
    (ires.kind = "route" /\ ireg[IRegOf(ires.method, ires.path)].grp) =>
        LET n == IRegOf(ires.method, ires.path)
            mws == imws \o ireg[n].gmws
        IN IAllCall(mws) => IEnters(ires.trace) = IExpected(mws, n)

\* C1 witness: Router middleware [A, B], group middleware [C], and a request to the
\* group's route has entered A, B, C and the handler
C1_Witness ==
    /\ ires.kind = "route" /\ ires.path = "/v/x"
    /\ imws = <<IMw("pass", "A"), IMw("pass", "B")>>
    /\ ireg[IRegOf(ires.method, ires.path)].gmws = <<IMw("pass", "C")>>
    /\ IEnters(ires.trace) =
          <<IEv("enter", "A", 0), IEv("enter", "B", 0), IEv("enter", "C", 0),
            IEv("enter", "", Len(NewRouterRegs) + 1)>>

Req1 == reqs[1]

\* the request returned from ServeHTTP and a route was found for it
Served(c) == c.pc = "done" /\ c.route # 0

Entered(c, k, id) ==
    \E i \in 1..Len(c.trace) : c.trace[i] = [ev |-> "enter", k |-> k, id |-> id]

\* positions of the trace at which a route handler was entered
Finals(c) == {i \in 1..Len(c.trace) : c.trace[i].ev = "enter" /\ c.trace[i].k = "final"}

AllPass == \A i \in 1..mwLen : mwArr[i].kind = "pass"

\* m1 .. mn entered in registration order, then h; h returns, then mn .. m1 return
ExpectedTrace(n, h) ==
    [i \in 1..(n + n + 2) |->
        IF i <= n THEN [ev |-> "enter", k |-> "mw", id |-> i]
        ELSE IF i = n + 1 THEN [ev |-> "enter", k |-> "final", id |-> h]
        ELSE IF i = n + 2 THEN [ev |-> "exit", k |-> "final", id |-> h]
        ELSE [ev |-> "exit", k |-> "mw", id |-> n + n + 3 - i]]

\* C2: when every global middleware calls Next once, a served request enters the
\* middleware in registration order, then the handler; the handler returns before
\* any code after Next runs, and that code runs in reverse registration order
C2_RegistrationOrder ==
    (Served(Req1) /\ AllPass) =>
        Req1.trace = ExpectedTrace(mwLen, routes[Req1.route].Handler)

\* C2 witness: a served request whose route was registered between two Use calls
C2_Witness ==
    /\ Served(Req1) /\ AllPass
    /\ reg[Req1.route].nmw >= 1
    /\ reg[Req1.route].nmw < mwLen
    /\ Req1.trace = ExpectedTrace(mwLen, routes[Req1.route].Handler)

\* C3: when the middleware at position i ran and returned without calling Next,
\* no later middleware and no route handler ran during the request
C3_NoNextStopsChain ==
    \A i \in 1..mwLen :
        (Req1.pc = "done" /\ mwArr[i].kind = "block" /\ Entered(Req1, "mw", i)) =>
            /\ \A j \in (i + 1)..mwLen : ~Entered(Req1, "mw", j)
            /\ Finals(Req1) = {}

\* C4: a request to a route registered through a group enters every middleware the
\* group had when the route was registered, and the handler does not run when one
\* of them returns without calling Next
C4_GroupMiddlewareRuns ==
    (Served(Req1) /\ reg[Req1.route].grp # 0) =>
        LET g == groups[reg[Req1.route].grp].middlewares
            n == reg[Req1.route].ngmw
        IN /\ \A j \in 1..n : Entered(Req1, "gmw", j)
           /\ (\E j \in 1..n : g[j].kind = "block") => Finals(Req1) = {}

\* C5: a request for exactly (M, T), T a template without markers registered under M,
\* resolves to a route registered for (M, T) with empty Params and runs its handler
C5_StaticRouteWins ==
    \A i \in 1..Len(routes) :
        (/\ Req1.pc = "done"
         /\ ~Contains(routes[i].Path, ":")
         /\ routes[i].Method = Req1.method
         /\ routes[i].Path = Req1.path) =>
            /\ Req1.route # 0
            /\ routes[Req1.route].Method = Req1.method
            /\ routes[Req1.route].Path = Req1.path
            /\ Req1.Params = EmptyParams
            /\ Entered(Req1, "final", routes[Req1.route].Handler)

\* strings.Split(s, "/")
RECURSIVE SplitFrom(_, _, _)
SplitFrom(s, i, cur) ==
    IF i > Len(s) THEN <<cur>>
    ELSE IF s[i] = "/" THEN <<cur>> \o SplitFrom(s, i + 1, <<>>)
    ELSE SplitFrom(s, i + 1, Append(cur, s[i]))

Segments(s) == SplitFrom(s, 1, <<>>)

IsMarker(seg) == Len(seg) >= 2 /\ seg[1] = ":"

IsLiteral(seg) == ~Contains(seg, ":")

\* every segment is a literal or a marker, and there is a marker
MarkerTemplate(t) ==
    LET ts == Segments(t)
    IN /\ \A k \in 1..Len(ts) : IsMarker(ts[k]) \/ IsLiteral(ts[k])
       /\ \E k \in 1..Len(ts) : IsMarker(ts[k])

SegAccept(t, p) ==
    LET ts == Segments(t)
        ps == Segments(p)
    IN /\ Len(ts) = Len(ps)
       /\ \A k \in 1..Len(ts) : IF IsMarker(ts[k]) THEN ps[k] # <<>> ELSE ts[k] = ps[k]

SegParamsOk(t, p, params) ==
    LET ts == Segments(t)
        ps == Segments(p)
        ks == {k \in 1..Len(ts) : IsMarker(ts[k])}
    IN /\ DOMAIN params = {Tail(ts[k]) : k \in ks}
       /\ \A n \in DOMAIN params : \E k \in ks : Tail(ts[k]) = n /\ params[n] = ps[k]

\* C6: a template with markers accepts a path iff both have the same number of
\* segments, literal segments are equal and marker segments of the path are
\* non-empty; on acceptance Params maps each marker name to its path segment
C6_AcceptIffSegments ==
    (mres.done /\ MarkerTemplate(tmpl)) =>
        /\ (mres.idx = 1) <=> SegAccept(tmpl, mpath)
        /\ (mres.idx = 1) => SegParamsOk(tmpl, mpath, mres.params)

\* the same for templates without '.', the one pattern metacharacter of Chars
C6_HoldsWithoutMetachars ==
    (mres.done /\ MarkerTemplate(tmpl) /\ ~Contains(tmpl, ".")) =>
        /\ (mres.idx = 1) <=> SegAccept(tmpl, mpath)
        /\ (mres.idx = 1) => SegParamsOk(tmpl, mpath, mres.params)

IsDynamic(i) == routes[i].Pattern # NoPattern

\* the test findRoute applies to one route: its method, then pattern or equality
RouteMatches(route, method, path) ==
    /\ route.Method = method
    /\ IF route.Pattern # NoPattern
       THEN FindStringSubmatch(route.Pattern, path).ok
       ELSE route.Path = path

Accepts(i, c) == RouteMatches(routes[i], c.method, c.path)

DynamicHits(c) == {i \in 1..Len(routes) : IsDynamic(i) /\ Accepts(i, c)}

Earliest(S) == CHOOSE i \in S : \A j \in S : i <= j

\* the request resolved to route i, ran its handler and no other, with its params
ResolvedTo(c, i) ==
    /\ c.route = i
    /\ \A k \in Finals(c) : c.trace[k].id = routes[i].Handler
    /\ Finals(c) # {}
    /\ c.Params = ParamsOf(routes[i].Params, FindStringSubmatch(routes[i].Pattern, c.path).caps)

OwnMethodHit(c) == \E i \in 1..Len(routes) : Accepts(i, c)

OtherMethodHit(c) ==
    \E i \in 1..Len(routes) :
        routes[i].Method # c.method /\ RouteMatches(routes[i], routes[i].Method, c.path)

\* C8: no route under the request's method but one under another method: 405;
\* 404 only when no route under any method accepts the path
C8_MethodNotAllowed ==
    Req1.pc = "done" =>
        /\ (~OwnMethodHit(Req1) /\ OtherMethodHit(Req1)) => Req1.status = 405
        /\ Req1.status = 404 => (~OwnMethodHit(Req1) /\ ~OtherMethodHit(Req1))

\* the methods under which the internal/router Router has a route for the path
IAllowed(path) == {m \in DOMAIN iroutes : path \in DOMAIN iroutes[m]}

\* the internal/router Router answers 405 when it has a route for the path under
\* another method only, and 404 only when it has none (checked beside C8, which the gofsen Router violates)
C8_InternalMethodNotAllowed ==
    ires.kind # "none" =>
        /\ (ires.method \notin IAllowed(ires.path) /\ IAllowed(ires.path) # {})
               => ires.status = 405
        /\ ires.kind = "404" => IAllowed(ires.path) = {}

\* C9: a request that no route under any method accepts is answered 404 and runs
\* no route handler
C9_NotFound ==
    /\ (Req1.pc = "done" /\ ~OwnMethodHit(Req1) /\ ~OtherMethodHit(Req1)) =>
        /\ Req1.status = 404
        /\ Req1.route = 0
        /\ Finals(Req1) = {}
    /\ (ires.kind # "none" /\ IAllowed(ires.path) = {}) =>
        /\ ires.status = 404
        /\ ires.trace = <<>>

\* C9 witness: a router with routes answers 404 to a path none of them accepts
C9_Witness ==
    /\ Req1.pc = "done" /\ ~OwnMethodHit(Req1) /\ ~OtherMethodHit(Req1)
    /\ Len(routes) >= 1
    /\ Req1.status = 404

\* C9 witness: the internal/router Router answers 404 to a path it has no route for
C9_WitnessInternal == ires.kind # "none" /\ IAllowed(ires.path) = {} /\ ires.status = 404

\* C9 witness: a router with no routes answers 404
C9_WitnessEmpty == Req1.pc = "done" /\ routes = <<>> /\ Req1.status = 404

\* C10: under every interleaving each served request runs the handler of its own
\* resolved route, and that handler only
C10_OwnHandler ==
    \A r \in Reqs :
        Served(reqs[r]) =>
            /\ Finals(reqs[r]) # {}
            /\ \A k \in Finals(reqs[r]) :
                  reqs[r].trace[k].id = routes[reqs[r].route].Handler

\* C10: a step of a request in flight writes nothing reachable from the Router
C10_ServeWritesNothingShared ==
    [][(\E r \in Reqs : CStep(r)) => mwArr' = mwArr]_vars

\* positions (1-based) of Recovery() in the global middleware list
RecoveryIds == {i \in 1..mwLen : mwArr[i].kind = "recovery"}

\* position in the chain of the step an event belongs to: the handler comes last
StepPos(e) == IF e.k = "final" THEN mwLen + 1 ELSE e.id

\* the panics of the request raised by a step downstream of a Recovery()
GuardedPanics(c) ==
    {k \in 1..Len(c.trace) :
        /\ c.trace[k].ev = "panic"
        /\ \E i \in RecoveryIds : i < StepPos(c.trace[k])}

Finished(c) == c.pc \in {"done", "panicked"}

\* the backing array as New() and Use() alone leave it
CleanArr == [i \in 1..Len(mwArr) |-> IF i <= mwLen THEN mwArr[i] ELSE NilFn]

\* the answer the router gives now to GET path
AnswerFrom(arr, path) ==
    LET c == Run([c |-> BeginCtx(routes, mwLen, "GET", path), arr |-> arr, rs |-> routes]).c
    IN [pc |-> c.pc, status |-> c.status, body |-> c.body, trace |-> c.trace]

\* C11: when a step downstream of Recovery panics, the panic does not leave
\* ServeHTTP and the status is 500; and whatever requests were served before, the
\* router answers the next request as it would have answered it at first
C11_RecoveryContainsPanic ==
    /\ (Finished(Req1) /\ GuardedPanics(Req1) # {}) =>
          Req1.pc = "done" /\ Req1.status = 500
    /\ \A p \in {PA, PX} : AnswerFrom(mwArr, p) = AnswerFrom(CleanArr, p)

\* C11 holds for the panics of steps that had written nothing, in chains without a
\* middleware that calls Next twice
C11_HoldsWhenNothingWritten ==
    /\ (/\ Finished(Req1) /\ GuardedPanics(Req1) # {}
        /\ Req1.route # 0 /\ HandlerKind(routes[Req1.route].Handler) # "jsonpanic"
        /\ \A i \in 1..mwLen : mwArr[i].kind # "twice") =>
          Req1.pc = "done" /\ Req1.status = 500
    /\ \A p \in {PA, PX} : AnswerFrom(mwArr, p) = AnswerFrom(CleanArr, p)

\* the request entered a Recovery()
ThroughRecovery(c) ==
    \E k \in 1..Len(c.trace) :
        c.trace[k].ev = "enter" /\ c.trace[k].k = "mw" /\ c.trace[k].id \in RecoveryIds

Recovered(c) == \E k \in 1..Len(c.trace) : c.trace[k].ev = "recover"

\* C12: a request that passes through Recovery has one status and one body written:
\* without a panic Recovery writes nothing, and after a panic downstream the
\* response is the status 500 with the one error body
C12_WrittenOnce ==
    (Finished(Req1) /\ ThroughRecovery(Req1)) =>
        /\ Len(Req1.body) = 1
        /\ GuardedPanics(Req1) = {} => ~Recovered(Req1) /\ Req1.status = 200
        /\ GuardedPanics(Req1) # {} => Req1.status = 500 /\ Req1.body = <<"error">>

\* C12 holds when the panicking step had written nothing before and no middleware
\* calls Next twice
C12_HoldsWhenNothingWritten ==
    (/\ Finished(Req1) /\ ThroughRecovery(Req1)
     /\ HandlerKind(routes[Req1.route].Handler) # "jsonpanic"
     /\ \A i \in 1..mwLen : mwArr[i].kind # "twice") =>
        /\ Len(Req1.body) = 1
        /\ GuardedPanics(Req1) = {} => ~Recovered(Req1) /\ Req1.status = 200
        /\ GuardedPanics(Req1) # {} => Req1.status = 500 /\ Req1.body = <<"error">>

\* the indices of the trace at which a step is entered
EnterIdx(c) == {k \in 1..Len(c.trace) : c.trace[k].ev = "enter"}

\* C13: each step of a request's chain is entered at most once, whatever number of
\* times middleware and handler call Next, and a Next called by the handler, the
\* last step, enters nothing
C13_EachStepAtMostOnce ==
    /\ \A k, l \in EnterIdx(Req1) :
          (Req1.trace[k].k = Req1.trace[l].k /\ Req1.trace[k].id = Req1.trace[l].id) => k = l
    /\ \A k \in EnterIdx(Req1) :
          (Req1.trace[k].k = "final" /\ Len(Req1.trace) > k) =>
              Req1.trace[k + 1].k = "final"

\* C13 witness: a middleware called Next twice and the handler called Next after
\* the cursor had reached the end
C13_Witness ==
    /\ Req1.pc = "done" /\ Req1.route # 0
    /\ HandlerKind(routes[Req1.route].Handler) = "jsonnext"
    /\ \E i \in 1..mwLen : mwArr[i].kind = "twice"
    /\ Req1.idx > Req1.mw.len
    /\ Cardinality(EnterIdx(Req1)) = mwLen + 1

\* the chain of a request that resolved to a route: the Router's middleware, then
\* the middleware wrapped around the route's handler
IChain == imws \o iroutes[ires.method][ires.path].chain

\* the number of times the step after position i of the chain was entered
IEnteredAfter(chain, i) ==
    LET next == IF i < Len(chain) THEN IEv("enter", chain[i + 1].name, 0)
                ELSE IEv("enter", "", iroutes[ires.method][ires.path].h)
    IN Cardinality({k \in 1..Len(ires.trace) : ires.trace[k] = next})

\* C14: a request that reaches AuthMiddleware is answered 401 by it, with nothing
\* after it entered, when the Authorization header is empty or the validator
\* rejects it; otherwise the next step is entered once and the middleware writes
\* nothing, so that the response is the handler's alone
C14_AuthThreeOutcomes ==
    ires.kind = "route" =>
        \A i \in 1..Len(IChain) :
            (IChain[i].kind = "auth" /\ IAllCall(SubSeq(IChain, 1, i - 1))) =>
                IF ires.auth = "" \/ ~ValidateToken(ires.auth)
                THEN /\ ires.status = 401
                     /\ Len(ires.writes) = 1 /\ ires.writes[1].code = 401
                     /\ IEnteredAfter(IChain, i) = 0
                     /\ Len(IEnters(ires.trace)) = i
                ELSE /\ IEnteredAfter(IChain, i) = 1
                     /\ \A k \in 1..Len(ires.writes) : ires.writes[k].by = "handler"
                     /\ IAllCall(IChain) => ires.status = 200 /\ Len(ires.writes) = 1

\* C14 witness: the valid token has passed AuthMiddleware behind the Router's own
\* middleware and the handler has answered
C14_Witness ==
    /\ ires.kind = "route" /\ ires.path = "/api/me"
    /\ ValidateToken(ires.auth) /\ Len(imws) >= 1
    /\ ires.status = 200 /\ Len(ires.writes) = 1 /\ ires.writes[1].by = "handler"

\* C14 witness: an empty header is refused with 401
C14_WitnessMissing ==
    ires.kind = "route" /\ ires.path = "/api/me" /\ ires.auth = "" /\ ires.status = 401

\* C14 witness: a header the validator rejects is refused with 401
C14_WitnessInvalid ==
    /\ ires.kind = "route" /\ ires.path = "/api/me" /\ ires.auth = "Bearer wrong"
    /\ ires.status = 401

\* the masked form of a header value: at most its first 10 characters, then "***"
Masked(e, auth) ==
    \E n \in 0..Min(10, Len(auth)) : e = SubSeq(auth, 1, n) \o "***"

\* the texts taken from the Authorization header that the response bodies show
PayloadShown == {ires.writes[k].hauth : k \in 1..Len(ires.writes)}
                   \cup {ires.writes[k].token : k \in 1..Len(ires.writes)}

\* .. and those the log lines show
LogShown == {ires.log[k].header : k \in 1..Len(ires.log)}

\* C15: whatever a log line or an error payload shows of the Authorization header
\* has the masked form, at every logger level
C15_AuthHeaderMasked ==
    \A e \in (PayloadShown \cup LogShown) \ {""} : Masked(e, ires.auth)

\* the error payloads mask the header at every level, and so do the log lines at
\* the default level
C15_HoldsForPayloadsAndDefaultLevel ==
    /\ \A e \in PayloadShown \ {""} : Masked(e, ires.auth)
    /\ ires.level = LogInfo => LogShown \subseteq {""}

\* the allow-list names "*" or the Origin of the request
InAllowList == \E i \in 1..Len(farg.AllowOrigins) :
                  farg.AllowOrigins[i] \in {"*", farg.origin}

\* C16: CORSWithConfig sets Access-Control-Allow-Origin iff the allow-list holds
\* "*" or the request's Origin, and then to that Origin when the request has one
C16_AllowOriginIffListed ==
    (farg.fn = "cors" /\ fres.done) =>
        /\ fres.out.acao.set <=> InAllowList
        /\ (fres.out.acao.set /\ farg.origin # "") => fres.out.acao.value = farg.origin

\* C16 witness: allow-list [https://a.com], Origin https://a.com, header echoed
C16_Witness ==
    /\ farg.fn = "cors" /\ fres.done
    /\ farg.AllowOrigins = <<"https://a.com">> /\ farg.origin = "https://a.com"
    /\ fres.out.acao = HeaderSet("https://a.com")

\* C16 witness: allow-list [https://a.com], Origin https://b.com, no header
C16_WitnessRefused ==
    /\ farg.fn = "cors" /\ fres.done
    /\ farg.AllowOrigins = <<"https://a.com">> /\ farg.origin = "https://b.com"
    /\ ~fres.out.acao.set

\* positions of CORS() in the global middleware list
CorsIds == {i \in 1..mwLen : mwArr[i].kind = "cors"}

\* C17: with CORS() among the global middleware, an OPTIONS request to the path of
\* a registered route is answered by it with a 2xx status and the CORS headers,
\* and nothing after CORS() is entered
C17_PreflightAnswered ==
    (/\ Req1.pc = "done" /\ Req1.method = "OPTIONS"
     /\ CorsIds # {}
     /\ (OwnMethodHit(Req1) \/ OtherMethodHit(Req1))) =>
        /\ Req1.status \in 200..299
        /\ Req1.hdr.acao.set /\ Req1.hdr.others
        /\ \A k \in EnterIdx(Req1) :
              \A i \in CorsIds : StepPos(Req1.trace[k]) <= i

\* a request of another method passes CORS() with the headers set and reaches the
\* handler
C17_CorsPassesOtherMethods ==
    (/\ Req1.pc = "done" /\ Req1.method = "GET" /\ Req1.route # 0
     /\ CorsIds # {}) =>
        /\ Req1.status = 200
        /\ Req1.hdr.acao = HeaderSet("*") /\ Req1.hdr.others
        /\ Finals(Req1) # {}

\* the order of method names as strings
MethodRank(m) ==
    CASE m = "DELETE" -> 1
      [] m = "GET" -> 2
      [] m = "OPTIONS" -> 3
      [] m = "PATCH" -> 4
      [] m = "POST" -> 5
      [] m = "PUT" -> 6
      [] OTHER -> 7

\* sorted and free of duplicates
StrictlySorted(ms) ==
    \A i, j \in 1..Len(ms) : i < j => MethodRank(ms[i]) < MethodRank(ms[j])

Elems(q) == {q[i] : i \in 1..Len(q)}

\* C18: the body of a 405 response has details.allowed_methods, the sorted list
\* without duplicates of the methods the path is registered under, which never
\* holds the request's method
C18_AllowedMethodsSorted ==
    ires.kind = "405" =>
        /\ Len(ires.writes) = 1
        /\ "details" \in ires.writes[1].keys
        /\ "allowed_methods" \in ires.writes[1].dkeys
        /\ Elems(ires.writes[1].allowed) = IAllowed(ires.path)
        /\ StrictlySorted(ires.writes[1].allowed)
        /\ ires.method \notin Elems(ires.writes[1].allowed)

\* with the logger at LogDebug the 405 body does list exactly the methods of the
\* path, each once and never the request's own
C18_HoldsAsSetAtDebug ==
    (ires.kind = "405" /\ ires.level = LogDebug) =>
        /\ Len(ires.writes) = 1
        /\ "allowed_methods" \in ires.writes[1].dkeys
        /\ Elems(ires.writes[1].allowed) = IAllowed(ires.path)
        /\ Len(ires.writes[1].allowed) = Cardinality(IAllowed(ires.path))
        /\ ires.method \notin Elems(ires.writes[1].allowed)

\* .. but not in sorted order
C18_SortedAtDebug ==
    (ires.kind = "405" /\ ires.level = LogDebug) => StrictlySorted(ires.writes[1].allowed)


\* the keys of the JSON object a gofsen response body holds: Context.Error sends
\* error, status, path, method and time, ServeHTTP's 404 sends error alone, and
\* a route handler sends a payload of its own
BodyKeys(what) ==
    CASE what = "error" -> {"error", "status", "path", "method", "time"}
      [] what = "not_found" -> {"error"}
      [] OTHER -> {}

\* the response of the request is a failure: a status of 400 or more was written
Failure(c) == Finished(c) /\ c.status >= 400

\* C19: every failure response (404, 405, 401, Context.Error, the 500 of a
\* recovered panic) has a JSON body with at least the keys error, message, path,
\* method, timestamp and code
C19_FailureBodyKeys ==
    Failure(Req1) =>
        /\ Len(Req1.body) >= 1
        /\ \A i \in 1..Len(Req1.body) : ErrorKeys \subseteq BodyKeys(Req1.body[i])

\* the failure bodies of package gofsen never have the keys message, timestamp
\* and code
C19_GofsenBodiesLackKeys ==
    Failure(Req1) =>
        \A i \in 1..Len(Req1.body) :
            BodyKeys(Req1.body[i]) \cap {"message", "timestamp", "code"} = {}

\* in the internal router the bodies written by SendDetailedError (404, 405, the
\* 401 of AuthMiddleware) do have the six keys, and the code field is the status
C19_HoldsForSendDetailedError ==
    \A i \in 1..Len(ires.writes) :
        ires.writes[i].by = "SendDetailedError" =>
            ErrorKeys \subseteq ires.writes[i].keys /\ ires.writes[i].code >= 400

\* .. while a 401 sent with the internal Context.Error has the key error alone
C19_InternalErrorHasSixKeys ==
    \A i \in 1..Len(ires.writes) :
        ires.writes[i].by = "Error" => ErrorKeys \subseteq ires.writes[i].keys

\* whether the route is similar to the requested path
Qualifies(route, requestedPath) ==
    \/ /\ Len(route) >= 1 /\ Len(requestedPath) >= 1
       /\ SubSeq(route, 1, 1) = SubSeq(requestedPath, 1, 1)
    \/ /\ Len(route) > 3 /\ Len(requestedPath) > 3
       /\ \A k \in 0..2 : SubSeq(route, Len(route) - k, Len(route) - k)
                            = SubSeq(requestedPath, Len(requestedPath) - k, Len(requestedPath) - k)

\* the first n entries of a list
FirstN(q, n) == [i \in 1..(IF Len(q) < n THEN Len(q) ELSE n) |-> q[i]]

\* C20: SuggestSimilarRoutes returns at most 3 entries, each one an element of
\* availableRoutes that has the first character of requestedPath or, both being
\* longer than 3, its last 3 characters; the result is the first three such
\* entries in the order of availableRoutes; and the suggestions of the 404 body
\* are exactly this result
C20_SuggestionsInNotFoundBody ==
    fres.done =>
        /\ Len(fres.out) <= 3
        /\ \A i \in 1..Len(fres.out) :
              /\ fres.out[i] \in Elems(farg.availableRoutes)
              /\ Qualifies(fres.out[i], farg.requestedPath)
        /\ fres.out = FirstN(SelectSeq(farg.availableRoutes,
                                       LAMBDA r : Qualifies(r, farg.requestedPath)), 3)
        /\ "suggestions" \in fres.body.dkeys
        /\ fres.body.suggestions = fres.out

\* the function by itself does what the claim says
C20_HoldsForTheFunction ==
    fres.done =>
        /\ Len(fres.out) <= 3
        /\ \A i \in 1..Len(fres.out) :
              /\ fres.out[i] \in Elems(farg.availableRoutes)
              /\ Qualifies(fres.out[i], farg.requestedPath)
        /\ fres.out = FirstN(SelectSeq(farg.availableRoutes,
                                       LAMBDA r : Qualifies(r, farg.requestedPath)), 3)

\* and in detailed mode the body carries its result
C20_HoldsForTheBodyAtDebug ==
    (fres.done /\ farg.level = LogDebug) =>
        "suggestions" \in fres.body.dkeys /\ fres.body.suggestions = fres.out

\* some list has more than three similar routes and the result is cut to three
C20_MoreThanThree ==
    /\ fres.done
    /\ Len(SuggestAll(farg.requestedPath, farg.availableRoutes)) > 3
    /\ Len(fres.out) = 3

\* a route is kept for its last characters alone while a short route with the
\* same ending is left out
C20_LastCharsCase ==
    /\ fres.done
    /\ farg.requestedPath = "/users"
    /\ "busers" \in Elems(fres.out)
    /\ "ers" \in Elems(farg.availableRoutes)
    /\ "ers" \notin Elems(fres.out)

\* the 404 of the internal router under the default logger has no suggestions
C20_InternalNotFoundHasSuggestions ==
    ires.kind = "404" =>
        Len(ires.writes) = 1 /\ "suggestions" \in ires.writes[1].dkeys

\* routes i and j were registered under the same method and template
SameKey(i, j) == routes[i].Method = routes[j].Method /\ routes[i].Path = routes[j].Path

\* C21: after (method, template) is registered a second time, a request to it runs
\* the handler of the last registration and never that of an earlier one: the
\* route that serves a request is the last one registered under its method and
\* template
C21_LastRegistrationWins ==
    Served(Req1) =>
        /\ \A j \in 1..Len(routes) : SameKey(Req1.route, j) => j <= Req1.route
        /\ \A k \in Finals(Req1) : Req1.trace[k].id = routes[Req1.route].Handler

\* package gofsen does the reverse: the first registration of a method and
\* template serves every request, a later one never does
C21_GofsenFirstRegistrationWins ==
    Served(Req1) =>
        /\ \A j \in 1..Len(routes) : SameKey(Req1.route, j) => Req1.route <= j
        /\ \A k \in Finals(Req1) : Req1.trace[k].id = routes[Req1.route].Handler

\* in internal/router the last registration of (method, path) is the one that runs
C21_InternalLastRegistrationWins ==
    ires.kind = "route" =>
        \A i \in 1..Len(ires.trace) :
            (ires.trace[i].ev = "enter" /\ ires.trace[i].name = "") =>
                ires.trace[i].h = IRegOf(ires.method, ires.path)

\* a path registered twice in internal/router has answered a request
C21_InternalTwice ==
    /\ ires.kind = "route"
    /\ Cardinality({i \in 1..Len(ireg) : ireg[i].method = ires.method /\ ireg[i].path = ires.path}) >= 2
    /\ \E i \in 1..Len(ires.trace) : ires.trace[i].ev = "enter" /\ ires.trace[i].name = ""

\* the middleware of the given name was entered by the request
IEnteredMw(name) ==
    \E i \in 1..Len(ires.trace) : ires.trace[i] = IEv("enter", name, 0)

\* C22: a request that resolves to a route runs the Router's middleware as they
\* are when it is dispatched, then the middleware the route's group had when the
\* route was registered, and no other: each of them is entered exactly when all
\* those before it call next, so a middleware given to RouteGroup.Use after the
\* registration does not run and one given to Router.Use after it does
C22_GroupAtRegistrationGlobalAtDispatch ==
    ires.kind = "route" =>
        LET n == IRegOf(ires.method, ires.path)
            mws == imws \o ireg[n].gmws
        IN /\ \A i \in 1..Len(mws) :
                 IEnteredMw(mws[i].name) <=> \A j \in 1..(i - 1) : ICalls(mws[j], IReq)
           /\ \A i \in 1..Len(ires.trace) :
                 (ires.trace[i].ev = "enter" /\ ires.trace[i].name # "") =>
                     ires.trace[i].name \in Names(mws)

\* C22 witness: the group has C now but had no middleware when /v/x was registered
\* through it, and the Router has A; the request entered A and the handler but
\* not C
C22_Witness ==
    /\ ires.kind = "route" /\ ires.path = "/v/x"
    /\ ireg[IRegOf(ires.method, ires.path)].grp
    /\ ireg[IRegOf(ires.method, ires.path)].gmws = <<>>
    /\ "/v" \in DOMAIN igroups /\ igroups["/v"] = <<IMw("pass", "C")>>
    /\ imws = <<IMw("pass", "A")>>
    /\ IEnteredMw("A") /\ ~IEnteredMw("C")
    /\ \E i \in 1..Len(ires.trace) : ires.trace[i].ev = "enter" /\ ires.trace[i].name = ""

\* a route that NewRouter registered, before any Router.Use, runs the middleware
\* given to Router.Use since, then those of its group
C22_WitnessGlobalAfter ==
    /\ ires.kind = "route" /\ ires.path = "/test/multi/combined"
    /\ imws = <<IMw("pass", "A")>>
    /\ IEnters(ires.trace) =
          <<IEv("enter", "A", 0), IEv("enter", "Cors", 0), IEv("enter", "Header", 0),
            IEv("enter", "", 18)>>

\* a group middleware added before the registration runs for the route
C22_WitnessGroupBefore ==
    /\ ires.kind = "route" /\ ires.path = "/v/x"
    /\ ireg[IRegOf(ires.method, ires.path)].gmws = <<IMw("pass", "C")>>
    /\ IEnteredMw("C")

\* r.middlewares without the Logger() entries
WithoutLogger == SelectSeq(SubSeq(mwArr, 1, mwLen), LAMBDA fn : fn.kind # "logger")

\* what the client gets: whether ServeHTTP returned or panicked, the status, the
\* headers and the body
Response(c) == [pc |-> c.pc, status |-> c.status, hdr |-> c.hdr, body |-> c.body]

\* the response of the router to the request when it has the middleware mws
ResponseWith(mws, method, path) ==
    Response(Run([c |-> BeginCtx(routes, Len(mws), method, path), arr |-> mws, rs |-> routes]).c)

\* the steps of kind Logger() the request entered, by position in the chain
LoggersEntered(c) ==
    {c.trace[i].id : i \in {j \in 1..Len(c.trace) :
        /\ c.trace[j].ev = "enter" /\ c.trace[j].k = "mw"
        /\ mwArr[c.trace[j].id].kind = "logger"}}

\* C23: Logger never answers and never stops the chain: the response of a request
\* (status, headers, body) is the one the same router gives without its Logger()
\* middleware, and the step after an entered Logger() is entered too
C23_LoggerObservational ==
    Finished(Req1) =>
        /\ Response(Req1) = ResponseWith(WithoutLogger, Req1.method, Req1.path)
        /\ \A i \in LoggersEntered(Req1) :
              \E j \in 1..Len(Req1.trace) :
                  /\ Req1.trace[j].ev = "enter"
                  /\ Req1.trace[j].k = "final" \/ Req1.trace[j].id = i + 1

\* C23 witness: Logger() before a middleware that answers 401, and a request that
\* went through both
C23_Witness ==
    /\ Finished(Req1) /\ Req1.route # 0
    /\ mwLen = 2 /\ mwArr[1].kind = "logger" /\ mwArr[2].kind = "block"
    /\ LoggersEntered(Req1) = {1}
    /\ Req1.status = 401

\* Logger() around a handler that answers: status 200
C23_WitnessServed ==
    /\ Served(Req1) /\ mwLen >= 1 /\ mwArr[mwLen].kind = "logger"
    /\ LoggersEntered(Req1) # {}
    /\ Req1.status = 200 /\ Req1.body = <<"json">>

\* internal/router: LoggerMiddleware is a middleware that logs and calls next once,
\* as the Router middleware A and B are; a request served through them gets the
\* status and the body it gets from the route's own chain
C23_InternalLoggerObservational ==
    (ires.kind = "route" /\ \A i \in 1..Len(imws) : imws[i].kind = "pass") =>
        LET h == iroutes[ires.method][ires.path]
            req == [method |-> ires.method, path |-> ires.path, auth |-> ires.auth,
                    level |-> ires.level]
            bare == IRun(h.chain, h.h, req, IStart(req))
        IN ires.status = bare.status /\ ires.writes = bare.writes

\* the kind of the handler the request entered at position k of its trace
EnteredKind(c, k) == HandlerKind(c.trace[k].id)

\* C24 as stated: a handler that calls Status(201) and then JSON(v) gives status 201
\* and the encoding of v as body; a handler that calls JSON(v) without Status
\* gives status 200
C24_Original ==
    Finished(Req1) =>
        \A k \in Finals(Req1) :
            /\ EnteredKind(Req1, k) = "created" =>
                  Req1.status = 201 /\ Req1.body = <<"json">>
            /\ EnteredKind(Req1, k) \in {"json", "jsonnext", "jsonpanic"} =>
                  Req1.status = 200 /\ Len(Req1.body) >= 1 /\ Req1.body[1] = "json"

\* a step wrote to the response before position k of the trace: a middleware
\* that answers 401 or sets a status was entered, or a Recovery() recovered
WrittenBefore(c, k) ==
    \E j \in 1..(k - 1) :
        \/ /\ c.trace[j].ev = "enter" /\ c.trace[j].k = "mw"
           /\ mwArr[c.trace[j].id].kind \in {"block", "stamps"}
        \/ c.trace[j].ev = "recover"

\* C24: when nothing was written to the response before the handler runs, a
\* handler that calls Status(201) and then JSON(v) gives status 201, a handler
\* that calls JSON(v) without Status gives status 200, and the body starts with
\* the encoding of v; in any case the encoding of v is in the body
C24_StatusThenJSON ==
    Finished(Req1) =>
        \A k \in Finals(Req1) :
            EnteredKind(Req1, k) # "panic" =>
                /\ \E i \in 1..Len(Req1.body) : Req1.body[i] = "json"
                /\ ~WrittenBefore(Req1, k) =>
                      /\ Req1.status = IF EnteredKind(Req1, k) = "created" THEN 201 ELSE 200
                      /\ Req1.body[1] = "json"

\* C24 witness: a request served by a handler that answers Status(201).JSON(..)
C24_Witness ==
    /\ Served(Req1)
    /\ \E k \in Finals(Req1) : EnteredKind(Req1, k) = "created" /\ ~WrittenBefore(Req1, k)
    /\ Req1.status = 201 /\ Req1.body = <<"json">>

\* a request served by a handler that answers JSON(..) alone
C24_WitnessPlain ==
    /\ Served(Req1)
    /\ \E k \in Finals(Req1) : EnteredKind(Req1, k) = "json"
    /\ Req1.status = 200

\* a handler that answers JSON(..) alone after a middleware has set status 201
C24_WitnessLate ==
    /\ Served(Req1)
    /\ mwLen = 1 /\ mwArr[1].kind = "stamps"
    /\ \E k \in Finals(Req1) : EnteredKind(Req1, k) = "json"
    /\ Req1.status = 201 /\ Req1.body = <<"json">>

\* route i was registered through a group
ViaGroup(i) == reg[i].grp # 0

\* the prefix P of the group route i was registered through, and P+S
PrefixOf(i) == groups[reg[i].grp].prefix

FullTemplate(i) == PrefixOf(i) \o reg[i].sfx

\* the Route a direct registration of (method, template, handler) appends
DirectRoute(method, template, handler) == addRoute(<<>>, method, template, handler)[1]

\* the path is one that the template S answers when registered by itself
AtSuffix(S, path) == RouteMatches(DirectRoute("GET", S, 0), "GET", path)

\* no route registered before i answers the request
NoEarlierHit(c, i) == \A j \in 1..(i - 1) : ~Accepts(j, c)

\* the table holds for the group's route what Router.GET(P+S, h) would have
\* appended; a request its template answers and no earlier route does is served
\* by it, with the parameters P+S yields
GroupLikeDirect(c) ==
    \A i \in 1..Len(routes) : ViaGroup(i) =>
        /\ routes[i] = DirectRoute(routes[i].Method, FullTemplate(i), routes[i].Handler)
        /\ (Finished(c) /\ NoEarlierHit(c, i)
              /\ RouteMatches(DirectRoute("GET", FullTemplate(i), 0), c.method, c.path))
           => ResolvedTo(c, i)

\* C25 as stated: a route registered through a group with prefix P and suffix S is
\* resolved like the route registered on the Router with template P+S, and is
\* never reached at S alone
C25_Original ==
    /\ GroupLikeDirect(Req1)
    /\ \A i \in 1..Len(routes) :
          (ViaGroup(i) /\ Served(Req1) /\ Req1.route = i) => ~AtSuffix(reg[i].sfx, Req1.path)

\* C25: a route registered through a group with prefix P and suffix S is resolved
\* like the route registered on the Router with template P+S: it answers the
\* paths of P+S with the parameters of P+S, and when P is not empty it does not
\* answer at S alone
C25_GroupRouteLikeDirect ==
    /\ GroupLikeDirect(Req1)
    /\ \A i \in 1..Len(routes) :
          (ViaGroup(i) /\ PrefixOf(i) # <<>> /\ Served(Req1) /\ Req1.route = i)
              => ~AtSuffix(reg[i].sfx, Req1.path)

\* C25 witness: Group("/:j").GET("/a") has answered GET /x/a with j = "x"
C25_Witness ==
    /\ Served(Req1) /\ ViaGroup(Req1.route)
    /\ PrefixOf(Req1.route) = <<"/", ":", "j">> /\ reg[Req1.route].sfx = PA
    /\ Req1.path = PX \o PA
    /\ Req1.Params = [n \in {<<"j">>} |-> <<"x">>]

\* a request to S alone was answered 404 though Group("/a").GET("/a") is registered
C25_WitnessNotAtSuffix ==
    /\ Finished(Req1) /\ Req1.route = 0 /\ Req1.status = 404
    /\ Req1.path = PA
    /\ \E i \in 1..Len(routes) : ViaGroup(i) /\ PrefixOf(i) = PA /\ reg[i].sfx = PA

\* the keys asked for
QueryKeys == {"k", "1", ""}

\* whether the pair is key=value for the key, and its value
IsPairOf(pair, key) ==
    Len(pair) > Len(key) /\ SubSeq(pair, 1, Len(key) + 1) = key \o "="

ValueOf(pair, key) == SubSeq(pair, Len(key) + 2, Len(pair))

\* the positions at which the key occurs in the query, with or without '='
Occurrences(raw, key) ==
    LET pairs == Split(raw, "&")
    IN {i \in 1..Len(pairs) : raw # "" /\ (pairs[i] = key \/ IsPairOf(pairs[i], key))}

Last(S) == CHOOSE i \in S : \A j \in S : j <= i

\* C26 as stated: QueryParam(k) is the value of the last occurrence of k, and the
\* empty string when k is absent or occurs without '='
C26_Original ==
    fres.done =>
        \A r \in DOMAIN fres.Query : \A key \in QueryKeys :
            LET raw == farg.raw[r]
                occ == Occurrences(raw, key)
                pair == Split(raw, "&")[Last(occ)]
            IN QueryParam(fres.Query[r], key) =
                  IF occ = {} THEN ""
                  ELSE IF IsPairOf(pair, key) THEN ValueOf(pair, key) ELSE ""

\* C26: pairs without '=' are skipped: QueryParam(k) is the value of the last
\* pair k=value of the request's own query string, and the empty string when
\* there is none; each request has the map of its own query string
C26_LastPairWins ==
    fres.done =>
        \A r \in DOMAIN fres.Query :
            /\ fres.Query[r] = parseQuery(farg.raw[r])
            /\ \A key \in QueryKeys :
                  LET raw == farg.raw[r]
                      pairs == Split(raw, "&")
                      occ == {i \in Occurrences(raw, key) : IsPairOf(pairs[i], key)}
                  IN QueryParam(fres.Query[r], key) =
                        IF occ = {} THEN "" ELSE ValueOf(pairs[Last(occ)], key)

\* C26 witness: k is given twice with different values and both requests were served
C26_Witness ==
    /\ fres.done /\ DOMAIN fres.Query = Reqs
    /\ farg.raw[1] = "k=1&k=" /\ farg.raw[2] = "k=1"
    /\ QueryParam(fres.Query[1], "k") = "" /\ QueryParam(fres.Query[2], "k") = "1"

\* k with a value, then k without '='
C26_WitnessBare ==
    /\ fres.done /\ 1 \in DOMAIN fres.Query
    /\ farg.raw[1] = "k=1&k"
    /\ QueryParam(fres.Query[1], "k") = "1"

\* the panic at position p of the trace was intercepted: a Recovery() recovered it
Intercepted(c, p) == p < Len(c.trace) /\ c.trace[p + 1].ev = "recover"

\* the panics of the request
Panics(c) == {p \in 1..Len(c.trace) : c.trace[p].ev = "panic"}

\* C27: a panic is intercepted exactly when Recovery was registered earlier in the
\* chain than the step that raised it; any other panic leaves ServeHTTP
C27_InterceptedIffRecoveryEarlier ==
    Finished(Req1) =>
        \A p \in Panics(Req1) :
            /\ Intercepted(Req1, p) <=> \E i \in RecoveryIds : i < StepPos(Req1.trace[p])
            /\ ~Intercepted(Req1, p) => Req1.pc = "panicked"

\* C27 holds in the chains in which no middleware calls Next a second time
C27_HoldsWithoutSecondNext ==
    (Finished(Req1) /\ \A i \in 1..mwLen : mwArr[i].kind # "twice") =>
        \A p \in Panics(Req1) :
            /\ Intercepted(Req1, p) <=> \E i \in RecoveryIds : i < StepPos(Req1.trace[p])
            /\ ~Intercepted(Req1, p) => Req1.pc = "panicked"

\* a panic never leaves ServeHTTP past a Recovery() that is still running, and a
\* panic that is not intercepted always leaves it
C27_UninterceptedPropagates ==
    Finished(Req1) =>
        \A p \in Panics(Req1) : ~Intercepted(Req1, p) => (Req1.pc = "panicked" /\ p = Len(Req1.trace))

\* the handler panicked after Recovery() had returned, and the panic left ServeHTTP
C27_PanicPastRecovery ==
    /\ Req1.pc = "panicked"
    /\ \E p \in Panics(Req1) :
          Req1.trace[p].k = "final" /\ RecoveryIds # {} /\ ~Intercepted(Req1, p)

\* a middleware registered before Recovery() panicked after its Next returned
C27_PanicAfterNextBeforeRecovery ==
    /\ Req1.pc = "panicked" /\ mwLen >= 2
    /\ mwArr[1].kind = "panicsafter" /\ mwArr[2].kind = "recovery"
    /\ \E p \in Panics(Req1) : Req1.trace[p].k = "mw" /\ Req1.trace[p].id = 1

\* the template has a parameter marker: a ':' followed by a character other than '/'
HasMarker(t) == \E i \in 1..(Len(t) - 1) : t[i] = ":" /\ t[i + 1] # "/"

\* the Route that registering the template appends to the table
RouteOf(t) == addRoute(<<>>, "GET", t, 1)[1]

\* C28: the Pattern of a route is nil exactly when its template has no parameter
\* marker, and then the route matches by string equality; a Pattern that is there
\* yields as many captures as the route has Params, and each parameter name is
\* bound to the path segment at its marker's position
C28_RouteInvariant ==
    LET r == RouteOf(tmpl)
    IN /\ (r.Pattern = NoPattern) <=> ~HasMarker(tmpl)
       /\ (r.Pattern = NoPattern /\ mres.done) => ((mres.idx = 1) <=> (mpath = tmpl))
       /\ (r.Pattern # NoPattern /\ mres.done /\ mres.idx = 1) =>
             /\ Len(FindStringSubmatch(r.Pattern, mpath).caps) = Len(r.Params)
             /\ MarkerTemplate(tmpl) => SegParamsOk(tmpl, mpath, mres.params)

\* what does hold: a nil Pattern means no ':' in the template and matching by
\* equality, and a Pattern yields as many captures as there are Params
C28_HoldsForCaptures ==
    LET r == RouteOf(tmpl)
    IN /\ (r.Pattern = NoPattern) <=> ~Contains(tmpl, ":")
       /\ (r.Pattern = NoPattern /\ mres.done) => ((mres.idx = 1) <=> (mpath = tmpl))
       /\ (r.Pattern # NoPattern /\ mres.done /\ mres.idx = 1) =>
             Len(FindStringSubmatch(r.Pattern, mpath).caps) = Len(r.Params)

\* a template with a ':' and no marker has a Pattern and no Params
C28_PatternWithoutMarker ==
    /\ tmpl = <<"/", "a", ":">>
    /\ RouteOf(tmpl).Pattern # NoPattern /\ RouteOf(tmpl).Params = <<>>
    /\ mres.done /\ mres.idx = 1

\* the request's method has a route for the request's path
IRouted == ires.method \in DOMAIN iroutes /\ ires.path \in DOMAIN iroutes[ires.method]

\* the codes of the bodies written for the request
IWrittenCodes == {ires.writes[i].code : i \in 1..Len(ires.writes)}

\* C29: a request to internal/router takes one of three outcomes: the chain of
\* the matched route is invoked and the dispatcher writes nothing itself, or the
\* dispatcher writes one 405, or one 404, without invoking any chain; in the 405
\* branch allowedMethods is not empty and does not hold the request's method
C29_OneOfThreeOutcomes ==
    ires.kind # "none" =>
        /\ ires.kind \in {"route", "405", "404"}
        /\ ires.kind = "route" <=> IRouted
        /\ ires.kind = "405" <=> (~IRouted /\ IAllowed(ires.path) # {})
        /\ ires.kind = "404" <=> (~IRouted /\ IAllowed(ires.path) = {})
        /\ ires.kind = "route" =>
              /\ ires.trace # <<>>
              /\ IWrittenCodes \cap {404, 405} = {}
              /\ ires.allowed = <<>>
        /\ ires.kind \in {"405", "404"} =>
              /\ ires.trace = <<>>
              /\ Len(ires.writes) = 1
              /\ ires.writes[1].by = "SendDetailedError"
              /\ ires.writes[1].code = (IF ires.kind = "405" THEN 405 ELSE 404)
              /\ ires.status = ires.writes[1].code
        /\ ires.kind = "405" =>
              /\ Len(ires.allowed) >= 1
              /\ ires.method \notin Elems(ires.allowed)
        /\ ires.kind = "404" => ires.allowed = <<>>

\* C29 witness: a 405 whose allowedMethods has an entry, none of them the
\* request's method
C29_Witness ==
    /\ ires.kind = "405" /\ ires.method = "POST" /\ ires.path = "/api/me"
    /\ ires.allowed = <<"GET">> /\ ires.status = 405

\* a request served by a route's chain that answered 401 by itself
C29_WitnessRoute ==
    /\ ires.kind = "route" /\ ires.path = "/api/me" /\ ires.status = 401
    /\ Len(ires.writes) = 1

C29_Witness404 == ires.kind = "404" /\ ires.status = 404 /\ ires.path = "/nope"

\* C30: every response written through Context.JSON (Status(code).JSON(v),
\* Context.Error and the dispatcher's 404 included) has Content-Type:
\* application/json set before WriteHeader commits the status, so the header is
\* among the headers sent
C30_ContentTypeBeforeWriteHeader ==
    (Finished(Req1) /\ Req1.body # <<>>) => Req1.sentCtype

\* what the code does: the header is among those sent exactly when the status
\* was committed by JSON itself (the implicit 200 of the first Write), and is
\* set too late whenever Status(code) ran first
C30_SentOnlyWithoutStatus ==
    (Finished(Req1) /\ Req1.body # <<>>) =>
        /\ Req1.ctype
        /\ Req1.sentCtype <=> (Req1.status = 200)

\* the dispatcher's own 404 goes out without the header
C30_NotFoundWithoutContentType ==
    /\ Finished(Req1) /\ Req1.status = 404 /\ Req1.body = <<"not_found">>
    /\ Req1.ctype /\ ~Req1.sentCtype

\* a handler's JSON without Status goes out with it
C30_PlainJSONWithContentType ==
    /\ Finished(Req1) /\ Req1.status = 200 /\ Req1.body = <<"json">> /\ Req1.sentCtype

====
